---- MODULE Spec2Model ----
(***************************************************************************)
(* A model of psn-tool: the profile cache (utils/cache.py), the PSN client *)
(* with its token storage (core/client.py, core/config.py,                 *)
(* utils/database.py) and the GUI shell with its background workers        *)
(* (gui.py, cogs/*.py).                                                    *)
(*                                                                         *)
(* Three specifications share the module:                                  *)
(*   SpecCache   get_cached_profile under a moving clock                   *)
(*   SpecClient  authenticate / set_npsso / the data operations            *)
(*   Spec        the shell: UI-thread handlers, workers, queued signals    *)
(***************************************************************************)
EXTENDS Integers, Sequences, FiniteSets, TLC

(***************************************************************************)
(* Bounds of the model (not program constants).                            *)
(***************************************************************************)
MaxTicks == 4
MaxStrLen == 2
MaxWorkers == 2
MaxRows == 3
MaxConns == 2

(***************************************************************************)
(* Values shared by the three parts.                                       *)
(***************************************************************************)
None == "None"
Raise == "Raise"

VARIABLES
    \* ---- utils/cache.py ----
    now,              \* time.time()
    ticks,            \* number of clock advances so far (bounded by MaxTicks)
    profile_cache,    \* _profile_cache: key -> [cached_time, cached_data]
    cacheCall,        \* the last get_cached_profile call and what it did
    \* ---- core/client.py, core/config.py, utils/database.py ----
    client_up,        \* a PSNClient object has been constructed
    psnawp,           \* PSNClient.psnawp: the session handle, or NoSession
    settings,         \* the settings table: key -> value
    lastAuth,         \* outcome of this client's most recent authenticate call
    clientCall,       \* the last client operation and what it did
    \* ---- gui.py ----
    window,           \* "start", "constructing", "constructed", "shown", "closed"
    dialog,           \* the token dialog that is open: "none", "startup", "change"
    declined,         \* a token dialog was declined and none accepted since
    workers,          \* every worker object created, in order of creation
    active_threads,   \* MainWindow.active_threads (worker ids)
    active_image_loaders,   \* MainWindow.active_image_loaders (worker ids)
    current_search_thread,  \* MainWindow.current_search_thread (0: None)
    queue,            \* emissions queued for the UI thread, oldest first
    content_area,     \* what MainWindow.content_area shows
    handled,          \* workers with an emission delivered to the UI thread
    applied,          \* workers whose result or error a handler put on the UI
    superseded,       \* search workers replaced as current before being handled
    lastRun,          \* the worker run the last step completed, and what it emitted
    ui_blocking,      \* the kinds of blocking call the UI thread has made so far
    cleanup_obs,      \* what cleanup_threads left behind when it returned in the last step
    \* ---- utils/database.py, utils/encryption.py, utils/cache.py, cogs/token_cog.py ----
    stamps,           \* settings rows: key -> [created_at, updated_at]
    tokens,           \* the tokens table: rows in order of id
    db_writer,        \* the connection holding SQLite's write lock (0: none)
    savers,           \* per connection, the save_token call in progress
    key_file,         \* content of the .encryption_key file, or NoFile
    region_cache,     \* _region_cache: region code -> display name
    storeCall,        \* the last storage operation and what it did
    \* ---- library functions called on their own, ui/profile_ui.py ----
    lastCall,         \* the last call of a library function and what it did
    nav_pane          \* the widgets of the navigation pane's profile summary

cacheVars == <<now, ticks, profile_cache, cacheCall>>
clientVars == <<client_up, psnawp, settings, lastAuth, clientCall>>

storeVars == <<stamps, tokens, db_writer, savers, key_file, region_cache, storeCall>>

libVars == <<lastCall, nav_pane>>

shellVars == <<window, dialog, declined, workers, active_threads,
               active_image_loaders, current_search_thread, queue, content_area,
               handled, applied, superseded, lastRun, ui_blocking, cleanup_obs>>

vars == <<now, ticks, profile_cache, cacheCall,
          client_up, psnawp, settings, lastAuth, clientCall,
          window, dialog, declined, workers, active_threads,
          active_image_loaders, current_search_thread, queue, content_area,
          handled, applied, superseded, lastRun, ui_blocking, cleanup_obs,
          stamps, tokens, db_writer, savers, key_file, region_cache, storeCall,
          lastCall, nav_pane>>

(***************************************************************************)
(* utils/cache.py                                                          *)
(***************************************************************************)
CACHE_TTL == 300

CacheKeys == {"k1", "k2"}
ProfileData == {"p1", "p2"}
\* how far the clock moves in one step: a second, or just short of the TTL
TickSteps == {1, CACHE_TTL - 1}
\* seconds a fetch can take
FetchDurations == {0, 1}

\* cache.py:28  time.time() - cached_time < _CACHE_TTL
IsFreshLe(cached_time, t) == t - cached_time <= CACHE_TTL
IsFresh(cached_time, t) == t - cached_time < CACHE_TTL

\* cache.py:26-29  the lookup: is the call served from the cache?
CacheHit(cache, cache_key, t) ==
    /\ cache_key \in DOMAIN cache
    /\ IsFresh(cache[cache_key].cached_time, t)

\* dict assignment  d[k] = v
DictSet(d, k, v) == [x \in DOMAIN d \cup {k} |-> IF x = k THEN v ELSE d[x]]

\* cache.py:24-34  get_cached_profile.  t1 is time.time() at the lookup,
\* fetched the outcome of fetch_func (a value, or Raise), t2 is time.time()
\* at the store.  The result: the cache afterwards, the returned value (Raise
\* when fetch_func raised) and the number of fetch_func invocations.
get_cached_profile(cache, cache_key, t1, fetched, t2) ==
    IF CacheHit(cache, cache_key, t1)
    THEN [cache |-> cache, ret |-> cache[cache_key].cached_data, fetches |-> 0]
    ELSE IF fetched = Raise
         THEN [cache |-> cache, ret |-> Raise, fetches |-> 1]
         ELSE [cache |-> DictSet(cache, cache_key,
                                 [cached_time |-> t2, cached_data |-> fetched]),
               ret |-> fetched, fetches |-> 1]

NoEntry == [cached_time |-> 0, cached_data |-> None]
NoCacheCall == [called |-> FALSE, key |-> None, t1 |-> 0, t2 |-> 0, had |-> FALSE,
                before |-> NoEntry, fetched |-> None, ret |-> None, fetches |-> 0]

InitCacheVars ==
    /\ now = 0
    /\ ticks = 0
    /\ profile_cache = << >>
    /\ cacheCall = NoCacheCall

\* the clock moves
Tick ==
    /\ ticks < MaxTicks
    /\ \E d \in TickSteps : now' = now + d
    /\ ticks' = ticks + 1
    /\ UNCHANGED <<profile_cache, cacheCall>>
    /\ UNCHANGED <<clientVars, shellVars, storeVars, libVars>>

\* a caller invokes get_cached_profile(key, fetch_func)
GetCachedProfile ==
    \E key \in CacheKeys, fetched \in ProfileData \cup {Raise}, d \in FetchDurations :
        LET hit == CacheHit(profile_cache, key, now)
            dur == IF hit THEN 0 ELSE d
            r == get_cached_profile(profile_cache, key, now, fetched, now + dur)
        IN  /\ (dur > 0 => ticks < MaxTicks)
            /\ now' = now + dur
            /\ ticks' = IF dur > 0 THEN ticks + 1 ELSE ticks
            /\ profile_cache' = r.cache
            /\ cacheCall' = [called |-> TRUE, key |-> key, t1 |-> now, t2 |-> now + dur,
                             had |-> key \in DOMAIN profile_cache,
                             before |-> IF key \in DOMAIN profile_cache
                                        THEN profile_cache[key] ELSE NoEntry,
                             fetched |-> fetched,
                             ret |-> r.ret, fetches |-> r.fetches]
            /\ UNCHANGED <<clientVars, shellVars, storeVars, libVars>>

NextCache == Tick \/ GetCachedProfile

(***************************************************************************)
(* Strings.  A Python str is a sequence of characters; None (Optional[str])*)
(* is the one-element sequence NoneStr, which no string of the model is.   *)
(***************************************************************************)
Chars == {" ", "a", "A"}
WhiteSpace == {" "}
NoneStr == <<None>>

RECURSIVE StringsOfLen(_)
StringsOfLen(n) ==
    IF n = 0 THEN {<< >>}
    ELSE {<<c>> \o s : c \in Chars, s \in StringsOfLen(n - 1)}
\* the strings a user, a caller or PSN can supply
Strings == UNION {StringsOfLen(n) : n \in 0..MaxStrLen}

\* str.strip()
RECURSIVE LStrip(_)
LStrip(s) == IF s # << >> /\ Head(s) \in WhiteSpace THEN LStrip(Tail(s)) ELSE s
RECURSIVE RStrip(_)
RStrip(s) ==
    IF s # << >> /\ s[Len(s)] \in WhiteSpace
    THEN RStrip(SubSeq(s, 1, Len(s) - 1)) ELSE s
StripLeftOnly(s) == LStrip(s)
Strip(s) == RStrip(LStrip(s))

\* Python truthiness of an Optional[str]:  if token:
Truthy(s) == s # NoneStr /\ s # << >>

(***************************************************************************)
(* utils/encryption.py.  A key is a key mark.  A ciphertext is the key's   *)
(* mark, the plaintext and the authentication tag of the plaintext, in the *)
(* URL-safe base64 alphabet; a stored string can also hold characters      *)
(* outside that alphabet.  Decryption under another key, of altered bytes, *)
(* or of a string that is no ciphertext (a legacy plain value, the empty   *)
(* string), raises ValueError.                                             *)
(***************************************************************************)
KeyMarks == {"K0", "K1"}
\* the key file does not exist
NoFile == "absent"
\* encryption.py:38-64  the key PBKDF2 derives from the user name, the home
\* directory, the platform and the machine: a function of the system alone
SystemKey == "K1"

\* encryption.py:22-77  derive_key_from_system(): [key, key_file]
derive_key_from_system_fresh(kf) ==
    IF kf # NoFile THEN [key |-> kf, key_file |-> kf]
    ELSE [key |-> "K0", key_file |-> "K0"]
derive_key_from_system(kf) ==
    IF kf # NoFile THEN [key |-> kf, key_file |-> kf]
    ELSE [key |-> SystemKey, key_file |-> SystemKey]

\* encryption.py:80-83  the key get_cipher() uses now
CurrentKey == derive_key_from_system(key_file).key

\* the HMAC Fernet appends: a function of the key and the plaintext
Hmac(key, token) == ToString(<<key, token>>)

\* encryption.py:86-101
encrypt_token(token, key) == <<key>> \o token \o <<Hmac(key, token)>>

\* characters outside the base64 alphabet
NonAlphabet == {"!"}
\* encryption.py:118  base64.urlsafe_b64decode: characters outside the
\* alphabet are discarded, not rejected
RECURSIVE InAlphabet(_)
InAlphabet(s) ==
    IF s = << >> THEN << >>
    ELSE IF Head(s) \in NonAlphabet THEN InAlphabet(Tail(s))
    ELSE <<Head(s)>> \o InAlphabet(Tail(s))
urlsafe_b64decode_strict(s) == s
urlsafe_b64decode(s) == InAlphabet(s)

\* encryption.py:119  cipher.decrypt(bytes): [raised, value]
cipher_decrypt(bytes, key) ==
    IF /\ Len(bytes) >= 2
       /\ bytes[1] = key
       /\ bytes[Len(bytes)] = Hmac(key, SubSeq(bytes, 2, Len(bytes) - 1))
    THEN [raised |-> FALSE, value |-> SubSeq(bytes, 2, Len(bytes) - 1)]
    ELSE [raised |-> TRUE, value |-> NoneStr]

\* encryption.py:104-123: [raised, value]
decrypt_token(encrypted_token, key) ==
    cipher_decrypt(urlsafe_b64decode(encrypted_token), key)

(***************************************************************************)
(* utils/database.py: the settings table.                                  *)
(***************************************************************************)
\* database.py:148-154  a decryption that raised is logged and None returned
ValueOrNone(d) == IF d.raised THEN NoneStr ELSE d.value

\* database.py:131-156  get_setting(key, encrypted)
get_setting(tbl, key, encrypted) ==
    IF key \notin DOMAIN tbl THEN NoneStr
    ELSE IF encrypted
         THEN ValueOrNone(decrypt_token(tbl[key], CurrentKey))
         ELSE tbl[key]

\* database.py:159-182  set_setting(key, value, encrypt); db_ok is whether the
\* database accepts the write.  [raised, tbl]
set_setting(tbl, key, value, encrypt, db_ok) ==
    LET v == IF encrypt THEN encrypt_token(value, CurrentKey) ELSE value
    IN  IF db_ok
        THEN [raised |-> FALSE, tbl |-> DictSet(tbl, key, v)]
        ELSE [raised |-> TRUE, tbl |-> tbl]

(***************************************************************************)
(* utils/database.py: the timestamps of the settings rows, and the tokens  *)
(* table.  CURRENT_TIMESTAMP is the clock in whole seconds.  A tokens row  *)
(* is [token_type, token_value, is_active, created_at]; its id is its      *)
(* index.                                                                  *)
(***************************************************************************)
\* database.py:178-181  INSERT OR REPLACE INTO settings (key, value,
\* updated_at): a row with the same key is deleted and a new row inserted;
\* created_at is not in the column list and takes its default,
\* CURRENT_TIMESTAMP (database.py:105)
replace_row(st, key, t) == DictSet(st, key, [created_at |-> t, updated_at |-> t])

TokenTypes == {"npsso", "access_token"}
TokenValues == {<<"a">>, <<"A">>}

\* database.py:191-194  UPDATE tokens SET is_active = 0 WHERE token_type = ?
\* AND is_active = 1
deactivate(rows, token_type) ==
    [i \in DOMAIN rows |->
        IF rows[i].token_type = token_type /\ rows[i].is_active
        THEN [rows[i] EXCEPT !.is_active = FALSE] ELSE rows[i]]

\* database.py:185-203  save_token: the UPDATE and the INSERT of its one
\* transaction, committed at time t
save_token_no_update(rows, token_type, token_value, t) ==
    Append(rows,
           [token_type |-> token_type, token_value |-> token_value,
            is_active |-> TRUE, created_at |-> t])
save_token(rows, token_type, token_value, t) ==
    Append(deactivate(rows, token_type),
           [token_type |-> token_type, token_value |-> token_value,
            is_active |-> TRUE, created_at |-> t])

\* database.py:206-216  get_active_token: the values the query can return
\* (ORDER BY created_at DESC LIMIT 1 picks any of the newest active rows);
\* NoneStr when there is no active row
get_active_token(rows, token_type) ==
    LET act == {i \in DOMAIN rows :
                   rows[i].token_type = token_type /\ rows[i].is_active}
        newest == {i \in act : \A j \in act : rows[j].created_at <= rows[i].created_at}
    IN  IF act = {} THEN {NoneStr} ELSE {rows[i].token_value : i \in newest}

(***************************************************************************)
(* core/config.py                                                          *)
(***************************************************************************)
\* config.py:65-73  set_npsso_token(token): re-raises
set_npsso_token_plain(tbl, token, db_ok) == set_setting(tbl, "npsso", token, FALSE, db_ok)
set_npsso_token(tbl, token, db_ok) == set_setting(tbl, "npsso", token, TRUE, db_ok)

\* config.py:42-62  get_npsso_token(): [ret, tbl, migrated]
\* config.py:53-57  the unencrypted value raw was found and written back by
\* set_npsso_token (w); config.py:60-62 when that raised
Migrated(tbl, raw, w) ==
    IF w.raised
    THEN [ret |-> NoneStr, tbl |-> tbl, migrated |-> FALSE]
    ELSE [ret |-> raw, tbl |-> w.tbl, migrated |-> TRUE]
\* config.py:47-59  enc and raw are what the encrypted and the unencrypted
\* read of the row return
NpssoFrom(tbl, db_ok, enc, raw) ==
    IF Truthy(enc) THEN [ret |-> enc, tbl |-> tbl, migrated |-> FALSE]
    ELSE IF Truthy(raw) THEN Migrated(tbl, raw, set_npsso_token(tbl, raw, db_ok))
    ELSE [ret |-> NoneStr, tbl |-> tbl, migrated |-> FALSE]
get_npsso_token(tbl, db_ok) ==
    NpssoFrom(tbl, db_ok, get_setting(tbl, "npsso", TRUE),
              get_setting(tbl, "npsso", FALSE))

\* what get_npsso_token() would return now, the database being available
StoredToken(tbl) == get_npsso_token(tbl, TRUE).ret

(***************************************************************************)
(* core/client.py: PSNClient.  A client is [psnawp, settings]; psnawp is   *)
(* the NPSSO the session handle was built with, or NoSession.              *)
(***************************************************************************)
NoSession == NoneStr

\* the NPSSO codes PSN accepts; a request can also fail for other reasons
ValidNpsso == {<<"a">>, <<"A">>}

\* client.py:79-83  PSNAWP(npsso); psnawp.me(); me.online_id: succeeds when
\* PSN is reachable (net_ok) and accepts the code
SessionOpens(npsso, net_ok) == net_ok /\ npsso \in ValidNpsso

\* client.py:104-106
is_authenticated(c) == c.psnawp # NoSession

\* client.py:75-94  authenticate(npsso); net_ok: PSN is reachable; db_ok: the database accepts the write
authenticate_saving_first(c, npsso, net_ok, db_ok) ==
    LET w == set_npsso_token(c.settings, npsso, db_ok)
    IN  IF SessionOpens(npsso, net_ok) /\ ~w.raised
        THEN [psnawp |-> npsso, settings |-> w.tbl, ret |-> TRUE]
        ELSE [psnawp |-> NoSession, settings |-> w.tbl, ret |-> FALSE]
authenticate_keep_session(c, npsso, net_ok, db_ok) ==
    IF SessionOpens(npsso, net_ok)
    THEN LET w == set_npsso_token(c.settings, npsso, db_ok)
         IN  IF w.raised
             THEN [psnawp |-> NoSession, settings |-> c.settings, ret |-> FALSE]
             ELSE [psnawp |-> npsso, settings |-> w.tbl, ret |-> TRUE]
    ELSE [psnawp |-> c.psnawp, settings |-> c.settings, ret |-> FALSE]
authenticate(c, npsso, net_ok, db_ok) ==
    IF SessionOpens(npsso, net_ok)
    THEN LET w == set_npsso_token(c.settings, npsso, db_ok)
         IN  IF w.raised
             THEN [psnawp |-> NoSession, settings |-> c.settings, ret |-> FALSE]
             ELSE [psnawp |-> npsso, settings |-> w.tbl, ret |-> TRUE]
    ELSE [psnawp |-> NoSession, settings |-> c.settings, ret |-> FALSE]

\* client.py:98  not npsso or not npsso.strip()
BlankInput(npsso) == npsso = << >> \/ Strip(npsso) = << >>

\* client.py:96-102  set_npsso(npsso): [psnawp, settings, ret, attempted]
\* the outcome a of authenticate, as the outcome of a call that made it
Attempted(a) ==
    [psnawp |-> a.psnawp, settings |-> a.settings, ret |-> a.ret, attempted |-> TRUE]
set_npsso_no_strip(c, npsso, net_ok, db_ok) ==
    IF BlankInput(npsso)
    THEN [psnawp |-> c.psnawp, settings |-> c.settings, ret |-> FALSE,
          attempted |-> FALSE]
    ELSE Attempted(authenticate(c, npsso, net_ok, db_ok))
set_npsso(c, npsso, net_ok, db_ok) ==
    IF BlankInput(npsso)
    THEN [psnawp |-> c.psnawp, settings |-> c.settings, ret |-> FALSE,
          attempted |-> FALSE]
    ELSE Attempted(authenticate(c, Strip(npsso), net_ok, db_ok))

\* client.py:44-60  PSNClient.__init__(npsso=None): the stored token is read
\* (migrating a legacy value) and, when there is one, authenticated with.
\* [psnawp, settings, attempted, ret]
\* g is what get_npsso_token() returned (client.py:52-58)
InitWith(g, net_ok, db_ok) ==
    IF Truthy(g.ret)
    THEN Attempted(authenticate([psnawp |-> NoSession, settings |-> g.tbl],
                                g.ret, net_ok, db_ok))
    ELSE [psnawp |-> NoSession, settings |-> g.tbl,
          attempted |-> FALSE, ret |-> FALSE]
PSNClient_init(tbl, net_ok, db_ok) == InitWith(get_npsso_token(tbl, db_ok), net_ok, db_ok)

(***************************************************************************)
(* The data operations of PSNClient.  A result is [kind, items, api_calls]:*)
(* kind "none" is None, "list" a list, "profile" a UserProfile; api_calls  *)
(* counts the requests made to the PSN API.  api is what PSN answers:      *)
(* [ok, list, capable, avatar] (ok = FALSE: the request raises; capable:   *)
(* the user object has the list method; avatar: the profile has an avatar  *)
(* URL).                                                                   *)
(***************************************************************************)
ResNone(n) == [kind |-> "none", items |-> << >>, api_calls |-> n, avatar |-> FALSE]
ResList(l, n) == [kind |-> "list", items |-> l, api_calls |-> n, avatar |-> FALSE]
ResProfile(id, n, av) ==
    [kind |-> "profile", items |-> <<id>>, api_calls |-> n, avatar |-> av]

\* str.lower()
LowerChar(ch) == IF ch = "A" THEN "a" ELSE ch
Lower(s) == [i \in 1..Len(s) |-> LowerChar(s[i])]

\* me.online_id of the account a session belongs to
OwnOnlineId(session) == IF session = <<"a">> THEN <<"A">> ELSE <<"a", "A">>

PsnLists == {<< >>, <<"f1">>, <<"f1", "f2">>}
PsnAnswers == [ok : BOOLEAN, list : PsnLists, capable : BOOLEAN, avatar : BOOLEAN]

\* client.py:108-122 (and _fetch_profile, 124-199)
get_my_profile(c, api) ==
    IF ~is_authenticated(c) THEN ResNone(0)
    ELSE IF api.ok THEN ResProfile(OwnOnlineId(c.psnawp), 1, api.avatar) ELSE ResNone(1)

\* client.py:245-293
get_friends_list(c, api) ==
    IF ~is_authenticated(c) THEN ResList(<< >>, 0)
    ELSE IF api.ok THEN ResList(api.list, 1) ELSE ResList(<< >>, 1)

\* client.py:359-405
get_games_list(c, api) ==
    IF ~is_authenticated(c) THEN ResList(<< >>, 0)
    ELSE IF api.ok THEN ResList(api.list, 1) ELSE ResList(<< >>, 1)

\* client.py:295-357
get_user_friends_list(c, online_id, api) ==
    IF ~is_authenticated(c) THEN ResList(<< >>, 0)
    ELSE IF BlankInput(online_id) THEN ResList(<< >>, 0)
    ELSE IF Lower(OwnOnlineId(c.psnawp)) = Lower(Strip(online_id))
         THEN LET own == get_friends_list(c, api)
              IN  ResList(own.items, own.api_calls + 1)
    ELSE IF api.capable /\ api.ok THEN ResList(api.list, 2)
    ELSE ResList(<< >>, 2)

\* client.py:407-483
get_user_games_list(c, online_id, api) ==
    IF ~is_authenticated(c) THEN ResList(<< >>, 0)
    ELSE IF BlankInput(online_id) THEN ResList(<< >>, 0)
    ELSE IF Lower(OwnOnlineId(c.psnawp)) = Lower(Strip(online_id))
         THEN LET own == get_games_list(c, api)
              IN  ResList(own.items, own.api_calls + 1)
    ELSE IF api.capable /\ api.ok THEN ResList(api.list, 2)
    ELSE ResList(<< >>, 2)

\* client.py:485-577
search_user_unguarded(c, online_id, api) ==
    IF BlankInput(online_id) THEN ResNone(0)
    ELSE IF api.ok THEN ResProfile(Strip(online_id), 1, api.avatar) ELSE ResNone(1)
search_user(c, online_id, api) ==
    IF ~is_authenticated(c) THEN ResNone(0)
    ELSE IF BlankInput(online_id) THEN ResNone(0)
    ELSE IF api.ok THEN ResProfile(Strip(online_id), 1, api.avatar) ELSE ResNone(1)

\* client.py:579-611
search_users_by_name(c, name, api) ==
    IF ~is_authenticated(c) THEN ResList(<< >>, 0)
    ELSE IF BlankInput(name) THEN ResList(<< >>, 0)
    ELSE LET user == search_user(c, Strip(name), api)
         IN  IF user.kind = "profile"
             THEN ResList(user.items, user.api_calls)
             ELSE ResList(<< >>, user.api_calls)

DataOps == {"get_my_profile", "get_friends_list", "get_user_friends_list",
            "get_games_list", "get_user_games_list", "search_user",
            "search_users_by_name"}

\* the data operation op of the client, called with arg
DataOp(c, op, arg, api) ==
    CASE op = "get_my_profile" -> get_my_profile(c, api)
      [] op = "get_friends_list" -> get_friends_list(c, api)
      [] op = "get_user_friends_list" -> get_user_friends_list(c, arg, api)
      [] op = "get_games_list" -> get_games_list(c, api)
      [] op = "get_user_games_list" -> get_user_games_list(c, arg, api)
      [] op = "search_user" -> search_user(c, arg, api)
      [] op = "search_users_by_name" -> search_users_by_name(c, arg, api)

(***************************************************************************)
(* The client's operations as actions.                                     *)
(***************************************************************************)
Client == [psnawp |-> psnawp, settings |-> settings]

NoClientCall == [op |-> None, arg |-> NoneStr, ret |-> FALSE, attempted |-> FALSE,
                 net_ok |-> FALSE, db_ok |-> FALSE,
                 before |-> [psnawp |-> NoSession, settings |-> << >>],
                 result |-> ResNone(0)]

\* what the settings table can hold when the program starts: nothing, a token
\* encrypted under the current key or under a lost one, a legacy plain token,
\* the empty string left by delete_token
InitialSettings ==
    {<< >>} \cup
    {[k \in {"npsso"} |-> v] :
        v \in {encrypt_token(<<"a">>, "K1"), encrypt_token(<<"a">>, "K0"),
               <<"a">>, << >>}}

InitClientVars ==
    /\ client_up = FALSE
    /\ psnawp = NoSession
    /\ settings \in InitialSettings
    /\ lastAuth = "none"
    /\ clientCall = NoClientCall

\* PSNClient()
ClientConstruct ==
    /\ ~client_up
    /\ \E net_ok \in BOOLEAN, db_ok \in BOOLEAN :
         LET r == PSNClient_init(settings, net_ok, db_ok)
         IN  /\ client_up' = TRUE
             /\ psnawp' = r.psnawp
             /\ settings' = r.settings
             /\ lastAuth' = IF ~r.attempted THEN "none"
                            ELSE IF r.ret THEN "ok" ELSE "fail"
             /\ clientCall' = [NoClientCall EXCEPT
                                  !.op = "init", !.ret = r.ret,
                                  !.attempted = r.attempted,
                                  !.net_ok = net_ok, !.db_ok = db_ok,
                                  !.before = Client]
    /\ UNCHANGED <<cacheVars, shellVars, storeVars, libVars>>

\* client.authenticate(npsso)
ClientAuthenticate ==
    /\ client_up
    /\ \E npsso \in Strings, net_ok \in BOOLEAN, db_ok \in BOOLEAN :
         LET r == authenticate(Client, npsso, net_ok, db_ok)
         IN  /\ psnawp' = r.psnawp
             /\ settings' = r.settings
             /\ lastAuth' = IF r.ret THEN "ok" ELSE "fail"
             /\ clientCall' = [NoClientCall EXCEPT
                                  !.op = "authenticate", !.arg = npsso,
                                  !.ret = r.ret, !.attempted = TRUE,
                                  !.net_ok = net_ok, !.db_ok = db_ok,
                                  !.before = Client]
    /\ UNCHANGED <<client_up>>
    /\ UNCHANGED <<cacheVars, shellVars, storeVars, libVars>>

\* client.set_npsso(npsso)
ClientSetNpsso ==
    /\ client_up
    /\ \E npsso \in Strings, net_ok \in BOOLEAN, db_ok \in BOOLEAN :
         LET r == set_npsso(Client, npsso, net_ok, db_ok)
         IN  /\ psnawp' = r.psnawp
             /\ settings' = r.settings
             /\ lastAuth' = IF ~r.attempted THEN lastAuth
                            ELSE IF r.ret THEN "ok" ELSE "fail"
             /\ clientCall' = [NoClientCall EXCEPT
                                  !.op = "set_npsso", !.arg = npsso,
                                  !.ret = r.ret, !.attempted = r.attempted,
                                  !.net_ok = net_ok, !.db_ok = db_ok,
                                  !.before = Client]
    /\ UNCHANGED <<client_up>>
    /\ UNCHANGED <<cacheVars, shellVars, storeVars, libVars>>

\* one of the data operations
ClientDataOp ==
    /\ client_up
    /\ \E op \in DataOps, arg \in Strings, api \in PsnAnswers :
         /\ clientCall' = [NoClientCall EXCEPT
                              !.op = op, !.arg = arg, !.before = Client,
                              !.result = DataOp(Client, op, arg, api)]
    /\ UNCHANGED <<client_up, psnawp, settings, lastAuth>>
    /\ UNCHANGED <<cacheVars, shellVars, storeVars, libVars>>

NextClient ==
    \/ ClientConstruct
    \/ ClientAuthenticate
    \/ ClientSetNpsso
    \/ ClientDataOp

(***************************************************************************)
(* The database operations as actions.  storeCall records the last         *)
(* operation: its arguments, the row it found and what it returned.        *)
(***************************************************************************)
NoStamps == [created_at |-> 0, updated_at |-> 0]
NoPrev == [op |-> None, ret |-> NoneStr, migrated |-> FALSE, ok |-> FALSE,
           before |-> NoneStr]
NoStoreCall == [op |-> None, key |-> None, value |-> NoneStr, stored |-> NoneStr,
                had |-> FALSE, before |-> NoneStr, before_row |-> NoStamps,
                t |-> 0, raised |-> FALSE, ret |-> NoneStr, ok |-> FALSE,
                migrated |-> FALSE, key_before |-> NoFile, key_used |-> NoFile,
                prev |-> NoPrev]
\* what the next operation remembers of this one
Prev == [op |-> storeCall.op, ret |-> storeCall.ret, migrated |-> storeCall.migrated,
         ok |-> storeCall.ok, before |-> storeCall.before]

\* a connection that is not inside save_token
Idle == [pc |-> "idle", token_type |-> None, token_value |-> NoneStr]

\* the key file as an earlier run left it
InitKeyFile == key_file = SystemKey

SettingKeys == {"npsso", "theme"}
SettingValues == {<<"a">>, <<"A">>}

\* every row present at the start was written at time 0; stamps holds the
\* same for a key that has no row yet, to be replaced by its first write
NoCall == [op |-> None]
InitLibVars == lastCall = NoCall /\ nav_pane = << >>

InitStoreVars ==
    /\ stamps = [k \in SettingKeys |-> NoStamps]
    /\ tokens = << >>
    /\ db_writer = 0
    /\ savers = [c \in 1..MaxConns |-> Idle]
    /\ region_cache = << >>
    /\ storeCall = NoStoreCall

\* a caller invokes set_setting(key, value)
SetSetting ==
    /\ \E key \in SettingKeys, value \in SettingValues, db_ok \in BOOLEAN :
         LET r == set_setting(settings, key, value, FALSE, db_ok)
             had == key \in DOMAIN settings
         IN  /\ settings' = r.tbl
             /\ stamps' = IF r.raised THEN stamps ELSE replace_row(stamps, key, now)
             /\ storeCall' = [NoStoreCall EXCEPT
                                 !.op = "set_setting", !.key = key, !.value = value,
                                 !.had = had,
                                 !.before = IF had THEN settings[key] ELSE NoneStr,
                                 !.before_row = IF had THEN stamps[key] ELSE NoStamps,
                                 !.t = now, !.raised = r.raised]
    /\ UNCHANGED <<tokens, db_writer, savers, key_file, region_cache>>
    /\ UNCHANGED <<client_up, psnawp, lastAuth, clientCall, cacheVars, shellVars, libVars>>

NextSettings == Tick \/ SetSetting

\* One connection per save_token call (database.py:187).  Python's sqlite3
\* opens a transaction before the UPDATE, which takes SQLite's write lock;
\* it is held until conn.commit().  A second writer finds the database
\* locked and, after the busy timeout, its UPDATE raises OperationalError.
SaveTokenBegin ==
    /\ Len(tokens) < MaxRows
    /\ db_writer = 0
    /\ \E c \in 1..MaxConns, token_type \in TokenTypes, token_value \in TokenValues :
         /\ savers[c].pc = "idle"
         /\ db_writer' = c
         /\ savers' = [savers EXCEPT ![c] = [pc |-> "updated", token_type |-> token_type,
                                             token_value |-> token_value]]
    /\ storeCall' = NoStoreCall
    /\ UNCHANGED <<tokens, stamps, key_file, region_cache>>
    /\ UNCHANGED <<clientVars, cacheVars, shellVars, libVars>>

\* database.py:197-202  the INSERT and conn.commit()
SaveTokenCommit ==
    /\ db_writer # 0
    /\ LET c == db_writer
       IN  /\ tokens' = save_token(tokens, savers[c].token_type, savers[c].token_value, now)
           /\ savers' = [savers EXCEPT ![c] = Idle]
           /\ storeCall' = [NoStoreCall EXCEPT
                               !.op = "save_token", !.key = savers[c].token_type,
                               !.value = savers[c].token_value]
    /\ db_writer' = 0
    /\ UNCHANGED <<stamps, key_file, region_cache>>
    /\ UNCHANGED <<clientVars, cacheVars, shellVars, libVars>>

\* save_token called while another connection holds the write lock: the
\* UPDATE raises, the with-block rolls back, nothing is written
SaveTokenBusy ==
    /\ db_writer # 0
    /\ \E c \in 1..MaxConns, token_type \in TokenTypes, token_value \in TokenValues :
         /\ savers[c].pc = "idle"
         /\ storeCall' = [NoStoreCall EXCEPT
                             !.op = "save_token", !.key = token_type,
                             !.value = token_value, !.raised = TRUE]
    /\ UNCHANGED <<tokens, db_writer, savers, stamps, key_file, region_cache>>
    /\ UNCHANGED <<clientVars, cacheVars, shellVars, libVars>>

\* a caller invokes get_active_token(token_type); it reads committed rows
GetActiveToken ==
    /\ \E token_type \in TokenTypes, v \in TokenValues \cup {NoneStr} :
         /\ v \in get_active_token(tokens, token_type)
         /\ storeCall' = [NoStoreCall EXCEPT
                             !.op = "get_active_token", !.key = token_type, !.ret = v]
    /\ UNCHANGED <<tokens, db_writer, savers, stamps, key_file, region_cache>>
    /\ UNCHANGED <<clientVars, cacheVars, shellVars, libVars>>

NextTokens ==
    \/ Tick
    \/ SaveTokenBegin
    \/ SaveTokenCommit
    \/ SaveTokenBusy
    \/ GetActiveToken

(***************************************************************************)
(* Token storage: utils/encryption.py, core/config.py, utils/cache.py,     *)
(* cogs/token_cog.py, and the key file.                                    *)
(***************************************************************************)
\* cache.py:14-21  get_cached_region(region_code, lookup_func): [cache, ret]
get_cached_region(cache, region_code, looked_up) ==
    IF region_code \in DOMAIN cache
    THEN [cache |-> cache, ret |-> cache[region_code]]
    ELSE [cache |-> DictSet(cache, region_code, looked_up), ret |-> looked_up]

\* cache.py:37-41  clear_cache(): [profile_cache, region_cache]
clear_cache == [profile_cache |-> << >>, region_cache |-> << >>]

\* token_cog.py:46-57  TokenCog.delete_token(): [ret, tbl, cleared]
delete_token_no_write(tbl, db_ok) ==
    IF set_setting(tbl, "npsso", << >>, FALSE, db_ok).raised
    THEN [ret |-> FALSE, tbl |-> tbl, cleared |-> FALSE]
    ELSE [ret |-> TRUE, tbl |-> tbl, cleared |-> TRUE]
delete_token(tbl, db_ok) ==
    LET w == set_setting(tbl, "npsso", << >>, FALSE, db_ok)
    IN  IF w.raised
        THEN [ret |-> FALSE, tbl |-> tbl, cleared |-> FALSE]
        ELSE [ret |-> TRUE, tbl |-> w.tbl, cleared |-> TRUE]

\* token_cog.py:59-78  get_token_status()["has_token"]
has_token(tbl) == Truthy(get_npsso_token(tbl, TRUE).ret)

\* the key file after get_cipher() ran (encryption.py:66-77)
KeyFileAfterCipher == derive_key_from_system(key_file).key_file

\* ways a stored ciphertext can be changed: a character outside the base64
\* alphabet inserted, one element replaced, one element removed
TamperChars == Chars \cup KeyMarks \cup NonAlphabet
Tampers(c) ==
    ({SubSeq(c, 1, p) \o <<x>> \o SubSeq(c, p + 1, Len(c)) :
          p \in 0..Len(c), x \in NonAlphabet}
     \cup {[c EXCEPT ![p] = x] : p \in 1..Len(c), x \in TamperChars}
     \cup {SubSeq(c, 1, p - 1) \o SubSeq(c, p + 1, Len(c)) : p \in 1..Len(c)})
    \ {c}

\* ciphertexts of the same token under the other keys
Foreign(token, key) == {encrypt_token(token, k) : k \in KeyMarks \ {key}}

\* encrypt_token(token)
EncryptToken ==
    /\ \E token \in Strings :
         storeCall' = [NoStoreCall EXCEPT
                          !.op = "encrypt_token", !.value = token,
                          !.stored = encrypt_token(token, CurrentKey),
                          !.key_before = key_file, !.key_used = CurrentKey,
                          !.prev = Prev]
    /\ key_file' = KeyFileAfterCipher
    /\ UNCHANGED <<stamps, tokens, db_writer, savers, region_cache>>
    /\ UNCHANGED <<clientVars, cacheVars, shellVars, libVars>>

\* decrypt_token applied to the ciphertext just produced, to a changed copy
\* of it, or to a ciphertext of the same token under another key
DecryptToken ==
    /\ storeCall.op = "encrypt_token"
    /\ \E c \in {storeCall.stored} \cup Tampers(storeCall.stored)
                 \cup Foreign(storeCall.value, storeCall.key_used) :
         LET d == decrypt_token(c, CurrentKey)
         IN  storeCall' = [NoStoreCall EXCEPT
                              !.op = "decrypt_token", !.value = storeCall.value,
                              !.before = storeCall.stored, !.stored = c,
                              !.raised = d.raised, !.ret = d.value,
                              !.key_before = storeCall.key_used,
                              !.key_used = CurrentKey, !.prev = Prev]
    /\ key_file' = KeyFileAfterCipher
    /\ UNCHANGED <<stamps, tokens, db_writer, savers, region_cache>>
    /\ UNCHANGED <<clientVars, cacheVars, shellVars, libVars>>

\* the stored npsso value, NoneStr when there is no row
StoredRaw == IF "npsso" \in DOMAIN settings THEN settings["npsso"] ELSE NoneStr

\* core.config.get_npsso_token()
GetNpssoToken ==
    /\ \E db_ok \in BOOLEAN :
         LET r == get_npsso_token(settings, db_ok)
         IN  /\ settings' = r.tbl
             /\ storeCall' = [NoStoreCall EXCEPT
                                 !.op = "get_npsso_token", !.before = StoredRaw,
                                 !.had = "npsso" \in DOMAIN settings,
                                 !.ret = r.ret, !.migrated = r.migrated,
                                 !.key_before = key_file, !.key_used = CurrentKey,
                                 !.prev = Prev]
    /\ key_file' = IF "npsso" \in DOMAIN settings THEN KeyFileAfterCipher ELSE key_file
    /\ UNCHANGED <<stamps, tokens, db_writer, savers, region_cache>>
    /\ UNCHANGED <<client_up, psnawp, lastAuth, clientCall, cacheVars, shellVars, libVars>>

StoredTokens == {<<"a">>}

\* core.config.set_npsso_token(token)
SetNpssoToken ==
    /\ \E token \in StoredTokens, db_ok \in BOOLEAN :
         LET w == set_npsso_token(settings, token, db_ok)
         IN  /\ settings' = w.tbl
             /\ storeCall' = [NoStoreCall EXCEPT
                                 !.op = "set_npsso_token", !.value = token,
                                 !.before = StoredRaw, !.raised = w.raised,
                                 !.key_before = key_file, !.key_used = CurrentKey,
                                 !.prev = Prev]
    /\ key_file' = KeyFileAfterCipher
    /\ UNCHANGED <<stamps, tokens, db_writer, savers, region_cache>>
    /\ UNCHANGED <<client_up, psnawp, lastAuth, clientCall, cacheVars, shellVars, libVars>>

\* the key file is lost (deleted with the data directory left in place, or
\* the database restored without it)
LoseKeyFile ==
    /\ key_file # NoFile
    /\ key_file' = NoFile
    /\ storeCall' = [NoStoreCall EXCEPT
                        !.op = "lose_key_file", !.before = StoredRaw,
                        !.key_before = key_file, !.prev = Prev]
    /\ UNCHANGED <<stamps, tokens, db_writer, savers, region_cache>>
    /\ UNCHANGED <<clientVars, cacheVars, shellVars, libVars>>

RegionCodes == {"US"}
RegionNames == {<<"a">>}

\* client.py:146, 514  a profile fetch looks a region up through the cache
GetCachedRegion ==
    /\ \E code \in RegionCodes, name \in RegionNames :
         LET r == get_cached_region(region_cache, code, name)
         IN  /\ region_cache' = r.cache
             /\ storeCall' = [NoStoreCall EXCEPT
                                 !.op = "get_cached_region", !.key = code,
                                 !.ret = r.ret, !.prev = Prev]
    /\ UNCHANGED <<stamps, tokens, db_writer, savers, key_file>>
    /\ UNCHANGED <<clientVars, cacheVars, shellVars, libVars>>

\* token_cog.delete_token(), as MainWindow.delete_token calls it (gui.py:1183)
DeleteToken ==
    /\ \E db_ok \in BOOLEAN :
         LET r == delete_token(settings, db_ok)
             c == IF r.cleared THEN clear_cache
                  ELSE [profile_cache |-> profile_cache, region_cache |-> region_cache]
         IN  /\ settings' = r.tbl
             /\ profile_cache' = c.profile_cache
             /\ region_cache' = c.region_cache
             /\ storeCall' = [NoStoreCall EXCEPT
                                 !.op = "delete_token", !.before = StoredRaw,
                                 !.had = region_cache # << >>,
                                 !.ok = r.ret, !.prev = Prev]
    /\ UNCHANGED <<stamps, tokens, db_writer, savers, key_file>>
    /\ UNCHANGED <<client_up, psnawp, lastAuth, clientCall, now, ticks, cacheCall,
                   shellVars, libVars>>

\* gui.py:1212-1220  restart_application(): the process is replaced and the
\* new one constructs its PSNClient (gui.py:299); its caches start empty
Restart ==
    /\ storeCall.op = "delete_token"
    /\ storeCall.ok
    /\ \E net_ok \in BOOLEAN, db_ok \in BOOLEAN :
         LET r == PSNClient_init(settings, net_ok, db_ok)
         IN  /\ psnawp' = r.psnawp
             /\ settings' = r.settings
             /\ storeCall' = [NoStoreCall EXCEPT
                                 !.op = "restart", !.before = StoredRaw,
                                 !.ok = r.ret, !.prev = Prev]
    /\ client_up' = TRUE
    /\ profile_cache' = << >>
    /\ region_cache' = << >>
    /\ key_file' = IF "npsso" \in DOMAIN settings THEN KeyFileAfterCipher ELSE key_file
    /\ UNCHANGED <<stamps, tokens, db_writer, savers>>
    /\ UNCHANGED <<lastAuth, clientCall, now, ticks, cacheCall, shellVars, libVars>>

NextStore ==
    \/ EncryptToken
    \/ DecryptToken
    \/ GetNpssoToken
    \/ SetNpssoToken
    \/ LoseKeyFile
    \/ GetCachedRegion
    \/ DeleteToken
    \/ Restart

(***************************************************************************)
(* core/client.py: the resign ID of a profile.  An account ID is a string  *)
(* as PSN delivers it.                                                     *)
(***************************************************************************)
MaxIdLen == 3
AccountIdChars == {"0", "2", "5", "a", "-", " ", "_"}
RECURSIVE AccountIdsOfLen(_)
AccountIdsOfLen(n) ==
    IF n = 0 THEN {<< >>}
    ELSE {<<c>> \o s : c \in AccountIdChars, s \in AccountIdsOfLen(n - 1)}
AccountIds == UNION {AccountIdsOfLen(n) : n \in 0..MaxIdLen}

DigitChars == <<"0", "1", "2", "3", "4", "5", "6", "7", "8", "9",
                "a", "b", "c", "d", "e", "f">>
IsDecimalDigit(ch) == \E d \in 1..10 : DigitChars[d] = ch
DigitValue(ch) == (CHOOSE d \in 1..16 : DigitChars[d] = ch) - 1

\* the value of the digits of s in the given base, underscores skipped
RECURSIVE DigitsValue(_, _)
DigitsValue(s, base) ==
    IF s = << >> THEN 0
    ELSE IF s[Len(s)] = "_" THEN DigitsValue(SubSeq(s, 1, Len(s) - 1), base)
    ELSE DigitsValue(SubSeq(s, 1, Len(s) - 1), base) * base + DigitValue(s[Len(s)])

\* the digits part of an int() literal: decimal digits, single underscores
\* only between digits
IntBody(b) ==
    /\ b # << >>
    /\ \A i \in 1..Len(b) : IsDecimalDigit(b[i]) \/ b[i] = "_"
    /\ IsDecimalDigit(b[1])
    /\ IsDecimalDigit(b[Len(b)])
    /\ \A i \in 1..(Len(b) - 1) : ~(b[i] = "_" /\ b[i + 1] = "_")

\* int of the stripped string t: an optional sign, then the digits
IntOfStripped(t) ==
    IF t # << >> /\ t[1] \in {"+", "-"}
    THEN IF IntBody(Tail(t))
         THEN [raised |-> FALSE,
               value |-> IF t[1] = "-" THEN 0 - DigitsValue(Tail(t), 10)
                         ELSE DigitsValue(Tail(t), 10)]
         ELSE [raised |-> TRUE, value |-> 0]
    ELSE IF IntBody(t) THEN [raised |-> FALSE, value |-> DigitsValue(t, 10)]
    ELSE [raised |-> TRUE, value |-> 0]

\* client.py:136, 505  int(account_id): [raised, value]
int(account_id) == IntOfStripped(Strip(account_id))

\* the digits of n >= 0 in base 16
RECURSIVE HexDigits(_)
HexDigits(n) ==
    IF n < 16 THEN <<DigitChars[n + 1]>>
    ELSE HexDigits(n \div 16) \o <<DigitChars[(n % 16) + 1]>>

\* client.py:137, 506  f"{account_id_int:x}"
format_with_prefix(n) ==
    IF n < 0 THEN <<"-", "0", "x">> \o HexDigits(0 - n) ELSE <<"0", "x">> \o HexDigits(n)
format_x(n) == IF n < 0 THEN <<"-">> \o HexDigits(0 - n) ELSE HexDigits(n)

NotAvailable == <<"N", "/", "A">>

\* client.py:134-139, 503-508  the conversion and its except branch; p is what
\* int(account_id) did
ResignIdFrom(p) == IF p.raised THEN NotAvailable ELSE format_x(p.value)
resign_id(account_id) == ResignIdFrom(int(account_id))

\* client.py:124-199  _fetch_profile and client.py:495-577 of search_user:
\* the profile built from what PSN answered; None when the request raised
BuiltProfile(account_id, api_ok) ==
    IF api_ok
    THEN [kind |-> "profile", account_id |-> account_id,
          resign_id |-> resign_id(account_id)]
    ELSE [kind |-> "none", account_id |-> << >>, resign_id |-> << >>]

ProfileCall(op, account_id, api_ok) ==
    [op |-> op, account_id |-> account_id, api_ok |-> api_ok,
     ret |-> BuiltProfile(account_id, api_ok)]

\* get_my_profile() on an authenticated client; PSN reports the account ID
FetchProfile ==
    /\ \E account_id \in AccountIds, api_ok \in BOOLEAN :
         lastCall' = ProfileCall("get_my_profile", account_id, api_ok)
    /\ UNCHANGED <<cacheVars, clientVars, shellVars, storeVars, nav_pane>>

\* search_user(online_id) on an authenticated client
SearchUser ==
    /\ \E account_id \in AccountIds, api_ok \in BOOLEAN :
         lastCall' = ProfileCall("search_user", account_id, api_ok)
    /\ UNCHANGED <<cacheVars, clientVars, shellVars, storeVars, nav_pane>>

NextProfile ==
    \/ FetchProfile
    \/ SearchUser

(***************************************************************************)
(* core/client.py: get_friends_list with a progress callback.  PSN yields  *)
(* the friends one by one; friend i is the number i.  The extraction of a  *)
(* friend's name can raise (bad), and so can the request itself, when it   *)
(* is asked for the friend at raise_at (0: it does not raise).             *)
(***************************************************************************)
MaxFriends == 21
FriendCounts == {0, 9, 10, 11, 20, MaxFriends}
BadFriends == SUBSET {1, 10, 11}
RaisePoints == {0, 1, 11}

Message(kind, n) == [kind |-> kind, n |-> n]

\* client.py:263-280  the body of the loop for friend i: acc is [friends,
\* processed, msgs]
ProcessFriend_counting_failed(acc, i, bad) ==
    IF i \in bad
    THEN [acc EXCEPT !.processed = @ + 1,
                     !.msgs = IF (acc.processed + 1) % 10 = 0
                              THEN Append(@, Message("loaded", acc.processed + 1))
                              ELSE @]
    ELSE [acc EXCEPT !.friends = Append(@, i),
                     !.processed = @ + 1,
                     !.msgs = IF (acc.processed + 1) % 10 = 0
                              THEN Append(@, Message("loaded", acc.processed + 1))
                              ELSE @]
ProcessFriend(acc, i, bad) ==
    IF i \in bad THEN acc
    ELSE [acc EXCEPT !.friends = Append(@, i),
                     !.processed = @ + 1,
                     !.msgs = IF (acc.processed + 1) % 10 = 0
                              THEN Append(@, Message("loaded", acc.processed + 1))
                              ELSE @]

\* client.py:262-280  for friend_user in friends_generator, from friend i on;
\* [raised, acc]
RECURSIVE ForEachFriend(_, _, _, _, _)
ForEachFriend(acc, i, n, bad, raise_at) ==
    IF i = raise_at THEN [raised |-> TRUE, acc |-> acc]
    ELSE IF i > n THEN [raised |-> FALSE, acc |-> acc]
    ELSE ForEachFriend(ProcessFriend(acc, i, bad), i + 1, n, bad, raise_at)

\* client.py:282-293  after the loop (r is how it ended): [ret, msgs, raised]
FriendsResult(r) ==
    IF r.raised
    THEN [ret |-> << >>, msgs |-> Append(r.acc.msgs, Message("error", 0)),
          raised |-> TRUE]
    ELSE [ret |-> r.acc.friends,
          msgs |-> Append(r.acc.msgs, Message("completed", Len(r.acc.friends))),
          raised |-> FALSE]

\* client.py:245-293  get_friends_list(progress_callback=callback)
get_friends_list_with_callback(auth, n, bad, raise_at) ==
    IF ~auth THEN [ret |-> << >>, msgs |-> << >>, raised |-> FALSE]
    ELSE FriendsResult(
             ForEachFriend([friends |-> << >>, processed |-> 0,
                            msgs |-> <<Message("connecting", 0)>>],
                           1, n, bad, raise_at))

FriendsCall(auth, n, bad, raise_at, r) ==
    [op |-> "get_friends_list", auth |-> auth, n |-> n, bad |-> bad,
     raise_at |-> raise_at, ret |-> r.ret, msgs |-> r.msgs, raised |-> r.raised]

\* client.get_friends_list(progress_callback=...)
GetFriendsList ==
    /\ \E auth \in BOOLEAN, n \in FriendCounts, bad \in BadFriends,
          raise_at \in RaisePoints :
         lastCall' = FriendsCall(auth, n, bad, raise_at,
                                 get_friends_list_with_callback(auth, n, bad, raise_at))
    /\ UNCHANGED <<cacheVars, clientVars, shellVars, storeVars, nav_pane>>

(***************************************************************************)
(* core/client.py: the lists of another user, with PSN's answers told      *)
(* apart.  The own lists and the other user's lists are different values,  *)
(* so that a result says whose list it is.                                 *)
(***************************************************************************)
OwnFriends == <<"mine">>
OwnGames == <<"my game">>
TheirFriends == <<"theirs">>
TheirGames == <<"their game">>
\* me_ok: psnawp.me() answers; own_ok: the request for the own list answers;
\* user_ok: psnawp.user(online_id) answers; capable: the user object has the
\* method; visible: the user's list is not private (the request answers)
PsnListAnswers ==
    [me_ok : BOOLEAN, own_ok : BOOLEAN, user_ok : BOOLEAN, capable : BOOLEAN,
     visible : BOOLEAN]
ListSessions == {NoSession, <<"a">>}

Returns(list) == [raised |-> FALSE, ret |-> list]
Raises == [raised |-> TRUE, ret |-> << >>]
\* try: r  except Exception: return []
ExceptReturnsEmpty(r) == IF r.raised THEN Returns(<< >>) ELSE r

\* client.py:245-293 and 359-405: the own list (own is OwnFriends or OwnGames)
OwnList(session, psn, own) ==
    IF session = NoSession THEN Returns(<< >>)
    ELSE ExceptReturnsEmpty(IF psn.me_ok /\ psn.own_ok THEN Returns(own) ELSE Raises)

\* client.py:322-352 and 434-478: the branch for the user object
TheirList_falling_back(session, psn, own, their) ==
    IF psn.capable
    THEN ExceptReturnsEmpty(IF psn.visible THEN Returns(their) ELSE Raises)
    ELSE OwnList(session, psn, own)
TheirList(session, psn, own, their) ==
    IF psn.capable
    THEN ExceptReturnsEmpty(IF psn.visible THEN Returns(their) ELSE Raises)
    ELSE Returns(<< >>)

\* client.py:309-357 and 421-483: the body of the outer try
UserListBody(session, online_id, psn, own, their) ==
    IF ~psn.me_ok THEN Raises
    ELSE IF Lower(OwnOnlineId(session)) = Lower(Strip(online_id))
         THEN OwnList(session, psn, own)
    ELSE IF ~psn.user_ok THEN Raises
    ELSE TheirList(session, psn, own, their)

\* client.py:295-357 and 407-483
UserList(session, online_id, psn, own, their) ==
    IF session = NoSession THEN Returns(<< >>)
    ELSE IF BlankInput(online_id) THEN Returns(<< >>)
    ELSE ExceptReturnsEmpty(UserListBody(session, online_id, psn, own, their))

\* client.py:295-357
get_user_friends_list_of(session, online_id, psn) ==
    UserList(session, online_id, psn, OwnFriends, TheirFriends)
\* client.py:407-483
get_user_games_list_of(session, online_id, psn) ==
    UserList(session, online_id, psn, OwnGames, TheirGames)

UserListCall(op, session, online_id, psn, r) ==
    [op |-> op, session |-> session, online_id |-> online_id, psn |-> psn,
     raised |-> r.raised, ret |-> r.ret]

\* client.get_user_friends_list(online_id)
GetUserFriendsList ==
    /\ \E session \in ListSessions, online_id \in Strings, psn \in PsnListAnswers :
         lastCall' = UserListCall("get_user_friends_list", session, online_id, psn,
                                  get_user_friends_list_of(session, online_id, psn))
    /\ UNCHANGED <<cacheVars, clientVars, shellVars, storeVars, nav_pane>>

\* client.get_user_games_list(online_id)
GetUserGamesList ==
    /\ \E session \in ListSessions, online_id \in Strings, psn \in PsnListAnswers :
         lastCall' = UserListCall("get_user_games_list", session, online_id, psn,
                                  get_user_games_list_of(session, online_id, psn))
    /\ UNCHANGED <<cacheVars, clientVars, shellVars, storeVars, nav_pane>>

\* PSN and the users' settings change between two calls
NextFriends ==
    \/ GetFriendsList
    \/ GetUserFriendsList
    \/ GetUserGamesList

(***************************************************************************)
(* gui.py: ImageLoader.run with the temporary file it downloads into.      *)
(* env says which of the steps fail: the HTTP request (net_ok), creating   *)
(* the temporary file (create_ok), writing the body into it (write_ok),    *)
(* decoding it as a pixmap (decode_ok), unlinking it (unlink_ok).          *)
(***************************************************************************)
ImageUrls == {<< >>, <<"u">>}
ImageSizes == {None, "64x64"}
ImageEnvs ==
    [net_ok : BOOLEAN, create_ok : BOOLEAN, write_ok : BOOLEAN,
     decode_ok : BOOLEAN, unlink_ok : BOOLEAN]
TmpFile == "tmp.png"

ImageRun(requests, emitted, created, existing) ==
    [requests |-> requests, emitted |-> emitted, created |-> created,
     existing |-> existing]

\* gui.py:89-94  finally: try: os.unlink(tmp_path) except: pass
Unlinked(env) == IF env.unlink_ok THEN {} ELSE {TmpFile}

\* gui.py:74-94  the inner try, entered once the body has been written
LoadPixmap(size, env) ==
    IF ~env.decode_ok
    THEN ImageRun(1, <<"error: Failed to load image">>, {TmpFile}, Unlinked(env))
    ELSE ImageRun(1, IF size = None THEN <<"finished: pixmap">>
                     ELSE <<"finished: scaled pixmap">>,
                  {TmpFile}, Unlinked(env))

\* gui.py:59-99  ImageLoader.run
ImageLoader_run_with_files(url, size, env) ==
    IF url = << >> THEN ImageRun(0, <<"error: No URL provided">>, {}, {})
    ELSE IF ~env.net_ok THEN ImageRun(1, <<"error: Network error">>, {}, {})
    ELSE IF ~env.create_ok THEN ImageRun(1, <<"error: Image load error">>, {}, {})
    ELSE IF ~env.write_ok
         THEN ImageRun(1, <<"error: Image load error">>, {TmpFile}, {TmpFile})
    ELSE LoadPixmap(size, env)

ImageCall(url, size, env, r) ==
    [op |-> "ImageLoader_run", url |-> url, size |-> size, env |-> env,
     requests |-> r.requests, emitted |-> r.emitted, created |-> r.created,
     existing |-> r.existing]

\* one run of an ImageLoader to its end
ImageLoaderRun ==
    /\ \E url \in ImageUrls, size \in ImageSizes, env \in ImageEnvs :
         lastCall' = ImageCall(url, size, env,
                               ImageLoader_run_with_files(url, size, env))
    /\ UNCHANGED <<cacheVars, clientVars, shellVars, storeVars, nav_pane>>

NextImage == ImageLoaderRun

(***************************************************************************)
(* gui.py, ui/profile_ui.py: the profile summary of the navigation pane.   *)
(* nav_pane is [info, resign, trophies, buttons]: the text of              *)
(* profile_info_label, of resign_id_edit and of trophy_info_label, and the *)
(* copy-base64 buttons of profile_layout, each with the data it copies.    *)
(* A text is the sequence of its parts.                                    *)
(***************************************************************************)
MaxButtons == 3
\* the profiles of two accounts; region, trophies and profile_base64 can be
\* missing (None)
NavProfiles ==
    [online_id : {"A"}, region : {"us", None}, resign_id : {"ff"},
     trophies : {"level 1", None}, profile_base64 : {"base64 of A", None}]
    \cup
    [online_id : {"B"}, region : {"jp", None}, resign_id : {"1a", "N/A"},
     trophies : {"level 2", None}, profile_base64 : {"base64 of B", None}]

LoadingText == <<"Loading...">>
\* gui.py:496-516  the pane as _create_nav_panel builds it
NavPaneInit ==
    [info |-> LoadingText, resign |-> << >>, trophies |-> <<"Loading trophies...">>,
     buttons |-> << >>]

\* profile_ui.py:27-29
ProfileText(profile) ==
    <<"Online ID: ", profile.online_id>>
    \o (IF profile.region # None THEN <<"Region: ", profile.region>> ELSE << >>)
\* profile_ui.py:45-56
TrophyText(profile) ==
    IF profile.trophies # None THEN <<"Trophies", profile.trophies>>
    ELSE <<"No trophy data available">>

\* profile_ui.py:24-56  display_profile_info: the text is put into the first
\* label of the layout whose text contains "Loading..."; of the labels of
\* the layout only profile_info_label can
display_profile_info(pane, profile) ==
    [pane EXCEPT !.info = IF @ = LoadingText THEN ProfileText(profile) ELSE @,
                 !.resign = <<profile.resign_id>>,
                 !.trophies = TrophyText(profile)]

\* profile_ui.py:58-67  add_base64_button
add_base64_button(pane, profile) ==
    IF profile.profile_base64 # None
    THEN [pane EXCEPT !.buttons = Append(@, profile.profile_base64)]
    ELSE pane

\* gui.py:641-663  on_profile_loaded, as far as the navigation pane goes
NavAfterProfileLoaded(pane, profile) ==
    add_base64_button(display_profile_info(pane, profile), profile)

\* the completion of a profile load is handled: the one started by
\* MainWindow.__init__ (gui.py:323) or, later, one started after a token
\* change (gui.py:1156-1166, 610-617)
ProfileLoaded ==
    /\ \E profile \in NavProfiles :
         /\ profile.profile_base64 # None => Len(nav_pane.buttons) < MaxButtons
         /\ nav_pane' = NavAfterProfileLoaded(nav_pane, profile)
         /\ lastCall' = [op |-> "on_profile_loaded", profile |-> profile]
    /\ UNCHANGED <<cacheVars, clientVars, shellVars, storeVars>>

\* gui.py:1168-1221  delete_token, confirmed: the application restarts and
\* the new window builds its pane
DeleteTokenRestart ==
    /\ nav_pane' = NavPaneInit
    /\ lastCall' = [op |-> "delete_token"]
    /\ UNCHANGED <<cacheVars, clientVars, shellVars, storeVars>>

NextNav ==
    \/ ProfileLoaded
    \/ DeleteTokenRestart

(***************************************************************************)
(* cogs/*.py: the adapters the workers call.  A cog's methods are listed   *)
(* with their parameters (after self); a call binds as Python binds it.    *)
(***************************************************************************)
CogMethods(cog) ==
    CASE cog = "FriendsCog" ->
            [get_friends_list |-> <<"limit">>,
             get_user_friends_list |-> <<"user_id", "limit">>,
             search_friend_profile |-> <<"friend_name">>,
             export_friends |-> <<"friends", "filename">>]
      [] cog = "GamesCog" ->
            [get_games_list |-> <<"limit">>,
             export_games |-> <<"games", "filename">>]
      [] cog = "SearchCog" ->
            [search_user |-> <<"username">>,
             search_users_by_name |-> <<"name", "limit">>,
             export_profile |-> <<"profile", "filename">>,
             export_search_results |-> <<"users", "filename">>]
      [] cog = "ProfileCog" ->
            [get_my_profile |-> <<"include_trophies", "skip_avatars">>,
             export_profile |-> <<"profile", "filename">>]

\* cog.method(<npos positional arguments>, <the keyword arguments kw>):
\* "ok", or the exception the call itself raises
CallBinds(cog, method, npos, kw) ==
    IF method \notin DOMAIN CogMethods(cog) THEN "AttributeError"
    ELSE LET ps == CogMethods(cog)[method]
         IN  IF npos > Len(ps) \/ ~(kw \subseteq {ps[i] : i \in (npos + 1)..Len(ps)})
             THEN "TypeError"
             ELSE "ok"

(***************************************************************************)
(* gui.py:48-237: the workers.  run() is given by the signals it emits, in *)
(* order: [sig, val] with sig "progress", "finished" or "error".           *)
(***************************************************************************)
Kinds == {"ImageLoader", "ProfileLoaderThread", "FriendsLoaderThread",
          "UserFriendsLoaderThread", "GamesLoaderThread",
          "UserGamesLoaderThread", "UserSearchThread"}

Val(r) == [r EXCEPT !.api_calls = 0]
NoVal == ResNone(0)
EmProgress == [sig |-> "progress", val |-> NoVal]
EmError == [sig |-> "error", val |-> NoVal]
EmFinished(r) == [sig |-> "finished", val |-> Val(r)]

ImageOutcomes == {"ok", "network", "null"}

\* gui.py:59-101  ImageLoader.run
ImageLoader_run(url, img) ==
    IF url = << >> THEN <<EmError>>
    ELSE IF img = "ok" THEN <<EmFinished(NoVal)>>
    ELSE <<EmError>>

\* gui.py:115-126  ProfileLoaderThread.run
ProfileLoaderThread_run_no_else(c, api) ==
    LET profile == get_my_profile(c, api)
    IN  IF profile.kind = "profile"
        THEN <<EmProgress, EmProgress, EmFinished(profile)>>
        ELSE <<EmProgress>>
ProfileLoaderThread_run(c, api) ==
    LET call == CallBinds("ProfileCog", "get_my_profile", 0,
                          {"include_trophies", "skip_avatars"})
        profile == get_my_profile(c, api)
    IN  IF call # "ok" THEN <<EmProgress, EmError>>
        ELSE IF profile.kind = "profile"
             THEN <<EmProgress, EmProgress, EmFinished(profile)>>
             ELSE <<EmProgress, EmError>>

\* gui.py:141-147  FriendsLoaderThread.run (the callback passes the client's
\* status messages on as progress)
FriendsLoaderThread_run(c, api) ==
    LET call == CallBinds("FriendsCog", "get_friends_list", 0,
                          {"limit", "progress_callback"})
    IN  IF call # "ok" THEN <<EmError>>
        ELSE (IF is_authenticated(c) THEN <<EmProgress, EmProgress>> ELSE << >>)
             \o <<EmFinished(get_friends_list(c, api))>>

\* gui.py:163-170  UserFriendsLoaderThread.run
UserFriendsLoaderThread_run(c, online_id, api) ==
    LET call == CallBinds("FriendsCog", "get_user_friends_list", 1, {"limit"})
    IN  IF call # "ok" THEN <<EmProgress, EmError>>
        ELSE <<EmProgress, EmFinished(get_user_friends_list(c, online_id, api))>>

\* gui.py:185-192  GamesLoaderThread.run
GamesLoaderThread_run(c, api) ==
    LET call == CallBinds("GamesCog", "get_games_list", 0, {"limit"})
    IN  IF call # "ok" THEN <<EmProgress, EmError>>
        ELSE <<EmProgress, EmFinished(get_games_list(c, api))>>

\* gui.py:208-215  UserGamesLoaderThread.run
UserGamesLoaderThread_run(c, online_id, api) ==
    LET call == CallBinds("GamesCog", "get_user_games_list", 1, {"limit"})
    IN  IF call # "ok" THEN <<EmProgress, EmError>>
        ELSE <<EmProgress, EmFinished(get_user_games_list(c, online_id, api))>>

\* gui.py:230-237  UserSearchThread.run
UserSearchThread_run(c, username, api) ==
    LET call == CallBinds("SearchCog", "search_user", 1, {})
    IN  IF call # "ok" THEN <<EmProgress, EmError>>
        ELSE <<EmProgress, EmFinished(search_user(c, Strip(username), api))>>

\* run() of a worker of the given class
Run(kind, c, arg, api, img) ==
    CASE kind = "ImageLoader" -> ImageLoader_run(arg, img)
      [] kind = "ProfileLoaderThread" -> ProfileLoaderThread_run(c, api)
      [] kind = "FriendsLoaderThread" -> FriendsLoaderThread_run(c, api)
      [] kind = "UserFriendsLoaderThread" -> UserFriendsLoaderThread_run(c, arg, api)
      [] kind = "GamesLoaderThread" -> GamesLoaderThread_run(c, api)
      [] kind = "UserGamesLoaderThread" -> UserGamesLoaderThread_run(c, arg, api)
      [] kind = "UserSearchThread" -> UserSearchThread_run(c, arg, api)

\* what PSN and the network can answer to a worker of a class: only the
\* parts of an answer the class looks at vary
NoAnswer == [ok |-> FALSE, list |-> << >>, capable |-> FALSE, avatar |-> FALSE]
ShellLists == {<< >>, << <<"a">> >>}
AnswersFor(kind) ==
    CASE kind = "ImageLoader" -> {NoAnswer}
      [] kind \in {"ProfileLoaderThread", "UserSearchThread"} ->
            {NoAnswer} \cup {[NoAnswer EXCEPT !.ok = TRUE, !.avatar = av] : av \in BOOLEAN}
      [] kind \in {"FriendsLoaderThread", "GamesLoaderThread"} ->
            {NoAnswer} \cup {[NoAnswer EXCEPT !.ok = TRUE, !.list = l] : l \in ShellLists}
      [] kind \in {"UserFriendsLoaderThread", "UserGamesLoaderThread"} ->
            {NoAnswer, [NoAnswer EXCEPT !.ok = TRUE]} \cup
            {[NoAnswer EXCEPT !.ok = TRUE, !.capable = TRUE, !.list = l] : l \in ShellLists}
RunEnvs(kind) ==
    {[api |-> a, img |-> i] :
        a \in AnswersFor(kind),
        i \in IF kind = "ImageLoader" THEN ImageOutcomes ELSE {"ok"}}

(***************************************************************************)
(* The shell's state as a record S, and the steps of gui.py on it.  The    *)
(* operators return the set of states a step can end in.                   *)
(***************************************************************************)
IsRunning(S, w) == S.workers[w].status \in {"running", "emitted"}

\* run() returns at some moment after its last emission.  The moment shows
\* only where isRunning() is read, and is settled there: for a worker that
\* has emitted, the read finds it still in run() or finds that it returned.
ExitWorker(S, w) == [S EXCEPT !.workers[w].status = "stopped"]
Observe(S, w) ==
    IF S.workers[w].status = "emitted" THEN {S, ExitWorker(S, w)} ELSE {S}

IsTerminal(sig) == sig \in {"finished", "error"}

\* the record of a worker run: who ran, with what, the signals it emitted in
\* order, the value of its first terminal emission, and how it ended
NoRun == [w |-> 0, kind |-> "none", arg |-> << >>, auth |-> FALSE, api |-> NoAnswer,
          log |-> << >>, val |-> NoVal, ended |-> "none"]

\* the worker's thread executes run(): a terminal emission is posted to the
\* UI thread while handlers are connected.  ems are the emissions of the
\* run, terms the terminal ones among them.
IsTerminalEmission(e) == IsTerminal(e.sig)
Posted(S, w, api, ems, terms) ==
    [S EXCEPT !.workers[w].status = "emitted",
              !.queue = @ \o (IF S.workers[w].connected
                              THEN [i \in 1..Len(terms) |->
                                       [w |-> w, sig |-> terms[i].sig,
                                        val |-> terms[i].val]]
                              ELSE << >>),
              !.lastRun = [w |-> w, kind |-> S.workers[w].kind,
                           arg |-> S.workers[w].arg,
                           auth |-> S.psnawp # NoSession, api |-> api,
                           log |-> [i \in 1..Len(ems) |-> ems[i].sig],
                           val |-> IF terms = << >> THEN NoVal ELSE terms[1].val,
                           ended |-> "returned"]]
Emitted(S, w, api, ems) == Posted(S, w, api, ems, SelectSeq(ems, IsTerminalEmission))
RunWorker(S, w, env) ==
    Emitted(S, w, env.api,
            Run(S.workers[w].kind, [psnawp |-> S.psnawp, settings |-> S.settings],
                S.workers[w].arg, env.api, env.img))

\* what a run has emitted when it waits for the answer to its request
BeforeRequest(kind) ==
    IF kind \in {"ImageLoader", "FriendsLoaderThread"} THEN << >> ELSE <<"progress">>

\* thread.terminate() while run() waits for the answer to its request
TerminateWorker(S, w) ==
    [S EXCEPT !.workers[w].status = "terminated",
              !.lastRun = [NoRun EXCEPT !.w = w, !.kind = S.workers[w].kind,
                                        !.arg = S.workers[w].arg,
                                        !.auth = S.psnawp # NoSession,
                                        !.log = BeforeRequest(S.workers[w].kind),
                                        !.ended = "terminated"]]

\* signal.disconnect(): no later emission reaches a handler; a call already
\* queued for the UI thread may or may not still be delivered
Disconnect(S, w) ==
    LET Keep(e) == e.w # w
    IN  {[S EXCEPT !.workers[w].connected = FALSE, !.queue = q] :
            q \in {S.queue, SelectSeq(S.queue, Keep)}}

\* thread.quit(); if not thread.wait(ms): thread.terminate(); thread.wait()
\* quit() does not interrupt run(): the thread either gets to the end of
\* run() within the wait or is terminated where it is
StopWithin(S, w) ==
    IF S.workers[w].status = "emitted" THEN {ExitWorker(S, w)}
    ELSE {TerminateWorker(S, w)} \cup
         {ExitWorker(RunWorker(S, w, env), w) : env \in RunEnvs(S.workers[w].kind)}

\* gui.py:337-351 and 368-380: the cancellation of one thread
CancelThread(S, w) ==
    UNION {IF IsRunning(O, w)
           THEN UNION {StopWithin(T, w) : T \in Disconnect(O, w)}
           ELSE {O} : O \in Observe(S, w)}

\* gui.py:330-355
_cancel_current_search(S) ==
    IF S.current_search_thread = 0 THEN {S}
    ELSE {[T EXCEPT !.current_search_thread = 0] :
             T \in CancelThread(S, S.current_search_thread)}

RECURSIVE CancelEach(_, _)
CancelEach(Ss, ids) ==
    IF ids = << >> THEN Ss
    ELSE CancelEach(UNION {CancelThread(T, Head(ids)) : T \in Ss}, Tail(ids))

\* gui.py:357-382
_cancel_pending_image_loaders(S) ==
    IF S.active_image_loaders = << >> THEN {S}
    ELSE CancelEach({[S EXCEPT !.active_image_loaders = << >>]},
                    S.active_image_loaders)

\* gui.py:395-408: one thread of cleanup_threads (no disconnect)
RECURSIVE StopEach(_, _)
StopEach(Ss, ids) ==
    IF ids = << >> THEN Ss
    ELSE StopEach(UNION {IF IsRunning(O, Head(ids)) THEN StopWithin(O, Head(ids))
                         ELSE {O} : O \in UNION {Observe(T, Head(ids)) : T \in Ss}},
                  Tail(ids))

\* what a call of cleanup_threads that was entered in state S leaves in the
\* state T it returns in: "left" when a list still has an entry, the current
\* search is still set or a worker is still running; otherwise "stopped"
\* when a worker was running at entry, and "clean" when none was
Running(S) == {w \in 1..MaxWorkers : S.workers[w].status = "running"}
Leftover(T) ==
    \/ T.active_threads # << >>
    \/ T.active_image_loaders # << >>
    \/ T.current_search_thread # 0
    \/ Running(T) # {}
Returned(S, T) ==
    [T EXCEPT !.cleanup_obs =
        IF Leftover(T) \/ S.cleanup_obs = "left" THEN "left"
        ELSE IF Running(S) # {} \/ S.cleanup_obs = "stopped" THEN "stopped"
        ELSE "clean"]

\* gui.py:392-410: the threads in active_threads are stopped and the list
\* is cleared
StopTracked(T) ==
    IF T.active_threads = << >> THEN {T}
    ELSE {[U EXCEPT !.active_threads = << >>] : U \in StopEach({T}, T.active_threads)}
StopTracked_no_terminate(T) ==
    IF T.active_threads = << >> THEN {T}
    ELSE {[T EXCEPT !.active_threads = << >>]}

\* gui.py:384-411
cleanup_threads_no_terminate(S) ==
    {Returned(S, U) :
        U \in UNION {StopTracked_no_terminate(T) :
                        T \in UNION {_cancel_pending_image_loaders(A) :
                                        A \in _cancel_current_search(S)}}}
cleanup_threads(S) ==
    {Returned(S, U) :
        U \in UNION {StopTracked(T) :
                        T \in UNION {_cancel_pending_image_loaders(A) :
                                        A \in _cancel_current_search(S)}}}

Without(s, w) == LET Keep(x) == x # w IN SelectSeq(s, Keep)

\* gui.py:413-418
track_thread(S, w) == [S EXCEPT !.active_threads = Append(@, w)]

\* gui.py:420-423
untrack_thread(S, w) == [S EXCEPT !.active_threads = Without(@, w)]

\* a worker object is created, its signals connected (done_slot to finished,
\* err_slot to error), track_thread called and the thread started.  The
\* object takes the first free place of the MaxWorkers the model has.
FreeWorker ==
    [kind |-> "none", done_slot |-> "none", err_slot |-> "none", arg |-> << >>,
     status |-> "free", connected |-> FALSE]
NewWorker(kind, done_slot, err_slot, arg) ==
    [kind |-> kind, done_slot |-> done_slot, err_slot |-> err_slot, arg |-> arg,
     status |-> "running", connected |-> TRUE]
FreePlaces(S) == {w \in 1..MaxWorkers : S.workers[w].status = "free"}
StartWorker(S, kind, done_slot, err_slot, arg) ==
    IF FreePlaces(S) = {} \/ S.overflow THEN [S EXCEPT !.overflow = TRUE]
    ELSE LET w == CHOOSE x \in FreePlaces(S) : \A y \in FreePlaces(S) : x <= y
         IN  track_thread([S EXCEPT !.workers[w] =
                                       NewWorker(kind, done_slot, err_slot, arg),
                                    !.started = w], w)

\* A worker object that has made its last emission and has nothing queued
\* takes no further part (its thread returns): nothing reads its connections
\* or its argument again, and the record of what was handled for it is
\* closed.  When nothing refers to the object any more it is reclaimed.  The
\* objects that remain are numbered by age.
Done(S, w) ==
    /\ S.workers[w].status \in {"emitted", "stopped", "terminated"}
    /\ \A i \in 1..Len(S.queue) : S.queue[i].w # w
Referenced(S, w) ==
    \/ \E i \in 1..Len(S.active_threads) : S.active_threads[i] = w
    \/ \E i \in 1..Len(S.active_image_loaders) : S.active_image_loaders[i] = w
    \/ S.current_search_thread = w
Reclaim(S) ==
    LET done == {w \in 1..MaxWorkers : Done(S, w)}
        kept == {w \in 1..MaxWorkers :
                    /\ S.workers[w].status # "free"
                    /\ w \in done => Referenced(S, w)}
        n(w) == Cardinality({v \in kept : v <= w})
        old(i) == CHOOSE w \in kept : n(w) = i
        After(w) == IF w \in done
                    THEN [FreeWorker EXCEPT
                             !.status = IF S.workers[w].status = "emitted"
                                        THEN "stopped"
                                        ELSE S.workers[w].status]
                    ELSE S.workers[w]
    IN  [S EXCEPT !.workers = [i \in 1..MaxWorkers |->
                                  IF i <= Cardinality(kept) THEN After(old(i))
                                  ELSE FreeWorker],
                  !.active_threads = [i \in 1..Len(@) |-> n(@[i])],
                  !.active_image_loaders = [i \in 1..Len(@) |-> n(@[i])],
                  !.current_search_thread = IF @ = 0 THEN 0 ELSE n(@),
                  !.queue = [i \in 1..Len(@) |-> [@[i] EXCEPT !.w = n(@)]],
                  !.handled = {n(w) : w \in @ \ done},
                  !.applied = {n(w) : w \in @ \ done},
                  !.superseded = {n(w) : w \in @ \ done}]

(***************************************************************************)
(* gui.py: what the content area shows, and the handlers of MainWindow.    *)
(* A view is [view, arg, items]: the panel, the online ID it is about, the  *)
(* names it lists.                                                         *)
(***************************************************************************)
View(view, arg, items) == [view |-> view, arg |-> arg, items |-> items]
Panel(view) == View(view, << >>, << >>)

Show(S, v) == [S EXCEPT !.content_area = v]
Applied(S, w) == [S EXCEPT !.applied = @ \cup {w}]

ImageUrl == <<"a">>

\* gui.py:665-672
load_profile_picture(S, url) ==
    StartWorker(S, "ImageLoader", "on_profile_picture_loaded",
                "on_profile_picture_error", url)

\* gui.py:674-685
load_search_picture(S, url) ==
    LET T == StartWorker(S, "ImageLoader", "on_search_picture_loaded_safe",
                         "on_search_picture_error_safe", url)
    IN  IF T.overflow THEN T
        ELSE [T EXCEPT !.active_image_loaders = Append(@, T.started)]

\* gui.py:629-639
load_profile(S) ==
    StartWorker(S, "ProfileLoaderThread", "on_profile_loaded", "on_profile_error", << >>)

\* gui.py:641-663
on_profile_loaded(S, w, profile) ==
    LET T == IF profile.avatar THEN load_profile_picture(S, ImageUrl) ELSE S
    IN  {Applied(Show(T, View("welcome", profile.items[1], << >>)), w)}

\* gui.py:1020-1068 and 1070-1116: on every path the loader leaves
\* active_image_loaders
on_search_picture_done(S, w) ==
    {[S EXCEPT !.active_image_loaders = Without(@, w)]}

\* gui.py:714-736
_show_error(S) == Show(S, Panel("error"))

\* gui.py:771-774
on_friends_loaded(S, w, friends) ==
    {Applied(Show(S, View("friends", << >>, friends.items)), w)}

\* gui.py:803-811
on_user_friends_loaded(S, w, online_id, friends) ==
    {Applied(IF friends.items # << >>
             THEN Show(S, View("user_friends", online_id, friends.items))
             ELSE _show_error(Show(S, View("user_friends", online_id, << >>))), w)}

\* gui.py:940-943
on_games_loaded(S, w, games) ==
    {Applied(Show(S, View("games", << >>, games.items)), w)}

\* gui.py:843-851
on_user_games_loaded(S, w, online_id, games) ==
    {Applied(IF games.items # << >>
             THEN Show(S, View("user_games", online_id, games.items))
             ELSE _show_error(Show(S, View("user_games", online_id, << >>))), w)}

\* search_ui.py:227-275, 326-372, 374-468: a found profile is put into the
\* search panel or, in the friend context, directly into the content area;
\* its widget asks for the avatar when the profile has one
display_search_results(S, profile, in_friend_context) ==
    IF profile.kind # "profile" THEN Show(S, Panel("search"))
    ELSE LET v == View(IF in_friend_context THEN "profile" ELSE "search_result",
                       profile.items[1], << >>)
             T == Show(S, v)
         IN  IF profile.avatar THEN load_search_picture(T, ImageUrl) ELSE T

\* search_ui.py:485-496
show_search_error(S) == Show(S, Panel("search"))

\* gui.py:894-913
on_friend_search_complete_with_thread(S, w, profile) ==
    IF S.current_search_thread # w THEN {S}
    ELSE {Applied(display_search_results(
                      [T EXCEPT !.current_search_thread = 0], profile, TRUE), w) :
             T \in _cancel_pending_image_loaders(S)}

\* gui.py:915-925
on_friend_search_error(S, w) ==
    IF S.current_search_thread = 0 THEN {S}
    ELSE {Applied(show_search_error([S EXCEPT !.current_search_thread = 0]), w)}

\* gui.py:988-1001
on_user_search_complete(S, w, profile) ==
    IF S.current_search_thread = 0 THEN {S}
    ELSE {Applied(display_search_results(
                      [T EXCEPT !.current_search_thread = 0], profile, FALSE), w) :
             T \in _cancel_pending_image_loaders(S)}

\* gui.py:1003-1018
on_user_search_error(S, w) ==
    IF S.current_search_thread = 0 THEN {S}
    ELSE {Applied(show_search_error([S EXCEPT !.current_search_thread = 0]), w)}

\* the slot of MainWindow connected under the given name, called for worker w
Slot(S, slot, w, val) ==
    CASE slot = "on_profile_loaded" -> on_profile_loaded(S, w, val)
      [] slot = "on_profile_error" -> {Applied(S, w)}
      [] slot \in {"on_profile_picture_loaded", "on_profile_picture_error"} ->
            {Applied(S, w)}
      [] slot \in {"on_search_picture_loaded_safe", "on_search_picture_error_safe"} ->
            on_search_picture_done(S, w)
      [] slot = "on_friends_loaded" -> on_friends_loaded(S, w, val)
      [] slot = "on_user_friends_loaded" ->
            on_user_friends_loaded(S, w, S.workers[w].arg, val)
      [] slot = "on_games_loaded" -> on_games_loaded(S, w, val)
      [] slot = "on_user_games_loaded" ->
            on_user_games_loaded(S, w, S.workers[w].arg, val)
      [] slot \in {"on_friends_error", "on_user_friends_error", "on_games_error",
                   "on_user_games_error"} -> {Applied(_show_error(S), w)}
      [] slot = "on_friend_search_complete_with_thread" ->
            on_friend_search_complete_with_thread(S, w, val)
      [] slot = "on_friend_search_error" -> on_friend_search_error(S, w)
      [] slot = "on_user_search_complete" -> on_user_search_complete(S, w, val)
      [] slot = "on_user_search_error" -> on_user_search_error(S, w)

\* the UI thread delivers the oldest queued emission: "finished" calls the
\* completion slot and then untrack_thread (connected in this order, gui.py:418),
\* "error" calls the error slot
Deliver(S) ==
    LET e == Head(S.queue)
        wr == S.workers[e.w]
        T == [S EXCEPT !.queue = Tail(@), !.handled = @ \cup {e.w}]
    IN  IF e.sig = "finished"
        THEN {untrack_thread(U, e.w) : U \in Slot(T, wr.done_slot, e.w, e.val)}
        ELSE Slot(T, wr.err_slot, e.w, e.val)

\* QApplication.processEvents(): everything queued is delivered
RECURSIVE processEvents(_)
processEvents(Ss) ==
    LET pending == {T \in Ss : T.queue # << >> /\ ~T.overflow}
    IN  IF pending = {} THEN Ss
        ELSE processEvents((Ss \ pending) \cup UNION {Deliver(T) : T \in pending})

\* self.current_search_thread = searcher, for the worker just started; the
\* searches whose completion has not been handled are superseded by it
SetCurrentSearch(S) ==
    IF S.overflow THEN S
    ELSE LET b == S.started
         IN  [S EXCEPT !.current_search_thread = b,
                       !.superseded = @ \cup
                           {a \in 1..MaxWorkers :
                               /\ a # b
                               /\ S.workers[a].kind = "UserSearchThread"
                               /\ a \notin S.handled}]

\* gui.py:758-769
show_friends(S) ==
    {StartWorker(Show(S, Panel("loading")), "FriendsLoaderThread",
                 "on_friends_loaded", "on_friends_error", << >>)}

\* gui.py:927-938
show_games(S) ==
    {StartWorker(Show(S, Panel("loading")), "GamesLoaderThread",
                 "on_games_loaded", "on_games_error", << >>)}

\* gui.py:787-801
view_user_friends(S, online_id) ==
    IF BlankInput(online_id) THEN {S}
    ELSE {StartWorker(Show(S, Panel("loading")), "UserFriendsLoaderThread",
                      "on_user_friends_loaded", "on_user_friends_error",
                      Strip(online_id))}

\* gui.py:827-841
view_user_games(S, online_id) ==
    IF BlankInput(online_id) THEN {S}
    ELSE {StartWorker(Show(S, Panel("loading")), "UserGamesLoaderThread",
                      "on_user_games_loaded", "on_user_games_error",
                      Strip(online_id))}

\* gui.py:960-986
perform_search(S, username) ==
    IF Strip(username) = << >> THEN {show_search_error(S)}
    ELSE LET A == UNION {_cancel_pending_image_loaders(T) :
                            T \in _cancel_current_search(S)}
         IN  {SetCurrentSearch(
                  StartWorker(T, "UserSearchThread", "on_user_search_complete",
                              "on_user_search_error", Strip(username))) :
                 T \in processEvents(A)}

\* gui.py:867-870
back_to_user_profile(S, online_id) == perform_search(S, online_id)

\* gui.py:872-892
search_friend(S, friend_name) ==
    LET A == UNION {_cancel_pending_image_loaders(T) : T \in _cancel_current_search(S)}
    IN  {SetCurrentSearch(
             StartWorker(Show(T, Panel("friend_search")), "UserSearchThread",
                         "on_friend_search_complete_with_thread",
                         "on_friend_search_error", Strip(friend_name))) :
            T \in A}

\* search_ui.py:162-225: the search box hands a non-blank name to
\* MainWindow.perform_search
SearchUI_perform_search(S, username) ==
    IF Strip(username) = << >> THEN {Show(S, Panel("search"))}
    ELSE perform_search(S, Strip(username))

(***************************************************************************)
(* The shell as actions.  The variables are gathered into the record the   *)
(* handlers work on; a step whose handlers would create more than          *)
(* MaxWorkers worker objects is not taken.                                 *)
(***************************************************************************)
RawShellState ==
    [workers |-> workers, active_threads |-> active_threads,
     active_image_loaders |-> active_image_loaders,
     current_search_thread |-> current_search_thread,
     queue |-> queue, content_area |-> content_area,
     psnawp |-> psnawp, settings |-> settings,
     handled |-> handled, applied |-> applied, superseded |-> superseded,
     lastRun |-> NoRun, ui_blocking |-> ui_blocking,
     cleanup_obs |-> "none", started |-> 0, overflow |-> FALSE]
ShellState == Reclaim(RawShellState)

SetShell(T) ==
    /\ workers' = T.workers
    /\ active_threads' = T.active_threads
    /\ active_image_loaders' = T.active_image_loaders
    /\ current_search_thread' = T.current_search_thread
    /\ queue' = T.queue
    /\ content_area' = T.content_area
    /\ psnawp' = T.psnawp
    /\ settings' = T.settings
    /\ handled' = T.handled
    /\ applied' = T.applied
    /\ superseded' = T.superseded
    /\ lastRun' = T.lastRun
    /\ ui_blocking' = T.ui_blocking
    /\ cleanup_obs' = T.cleanup_obs

Step(Ts) == \E T \in Ts : ~T.overflow /\ SetShell(T)

InitShellVars ==
    /\ window = "start"
    /\ dialog = "none"
    /\ declined = FALSE
    /\ workers = [w \in 1..MaxWorkers |-> FreeWorker]
    /\ active_threads = << >>
    /\ active_image_loaders = << >>
    /\ current_search_thread = 0
    /\ queue = << >>
    /\ content_area = Panel("blank")
    /\ handled = {}
    /\ applied = {}
    /\ superseded = {}
    /\ lastRun = NoRun
    /\ ui_blocking = {}
    /\ cleanup_obs = "none"

\* the blocking calls a handler made on the UI thread: a database read or
\* write (PSNClient.__init__, client.py:44-60; set_npsso_token on a
\* successful authenticate, client.py:75-94; get_setting("theme"),
\* settings_ui.py:106-107) and a PSN request (authenticate)
UiCalls(database, psn) ==
    (IF database THEN {"database"} ELSE {}) \cup (IF psn THEN {"psn"} ELSE {})

\* the window takes input: it is shown and no modal dialog is open
Interactive == window = "shown" /\ dialog = "none"

\* an event loop is running: app.exec() or a dialog's exec()
EventLoop == window = "shown" \/ dialog # "none"

\* gui.py:297-323  MainWindow.__init__, called by main() (gui.py:1287)
MainWindowInit ==
    /\ window = "start"
    /\ \E net_ok \in BOOLEAN, db_ok \in {TRUE} :
         LET r == PSNClient_init(settings, net_ok, db_ok)
             S == [ShellState EXCEPT !.psnawp = r.psnawp, !.settings = r.settings,
                                     !.ui_blocking = ui_blocking \cup UiCalls(TRUE, r.attempted)]
         IN  IF is_authenticated(S)
             THEN /\ Step({load_profile(S)})
                  /\ window' = "constructed"
                  /\ dialog' = "none"
             ELSE /\ SetShell(S)
                  /\ window' = "constructing"
                  /\ dialog' = "startup"
    /\ client_up' = TRUE
    /\ UNCHANGED <<declined, lastAuth, clientCall, cacheVars, storeVars, libVars>>

\* gui.py:1288-1291  window.show(); app.exec()
MainShow ==
    /\ window = "constructed"
    /\ window' = "shown"
    /\ UNCHANGED <<dialog, declined, workers, active_threads, active_image_loaders,
                   current_search_thread, queue, content_area, handled, applied,
                   superseded, clientVars, cacheVars, storeVars, libVars>>
    /\ lastRun' = NoRun
    /\ ui_blocking' = ui_blocking
    /\ cleanup_obs' = "none"

\* self.close() with app.exec() running: closeEvent (gui.py:325-328), the
\* event loop ends, then gui.py:1294-1296
Quit(S) == processEvents(UNION {cleanup_threads(T) : T \in cleanup_threads(S)})

\* gui.py:625, 627  self.close() in show_npsso_dialog.  During
\* MainWindow.__init__ the window is not shown and app.exec() has not been
\* called: closeEvent runs, nothing quits, and main() goes on to show()
CloseFromDialog ==
    /\ declined' = TRUE
    /\ dialog' = "none"
    /\ IF window = "constructing"
       THEN /\ Step(cleanup_threads(ShellState))
            /\ window' = "constructed"
       ELSE /\ Step(Quit(ShellState))
            /\ window' = "closed"
    /\ UNCHANGED <<client_up, lastAuth, clientCall, cacheVars, storeVars, libVars>>

DialogTexts == {<< >>, <<"a">>}

\* gui.py:613-625  the dialog is accepted with the given text in its field
DialogAccept ==
    /\ dialog # "none"
    /\ \E text \in DialogTexts, net_ok \in BOOLEAN, db_ok \in {TRUE} :
         LET token == Strip(text)
             r == set_npsso(Client, token, net_ok, db_ok)
             S == [ShellState EXCEPT !.psnawp = r.psnawp, !.settings = r.settings,
                                     !.ui_blocking = ui_blocking \cup UiCalls(r.ret, r.attempted)]
         IN  IF token # << >>
             THEN /\ IF r.ret
                     THEN /\ Step({load_profile(S)})
                          /\ dialog' = "none"
                          /\ window' = IF window = "constructing" THEN "constructed"
                                       ELSE window
                          /\ declined' = FALSE
                     ELSE /\ SetShell(S)
                          /\ UNCHANGED <<dialog, window, declined>>
                  /\ UNCHANGED <<client_up, lastAuth, clientCall, cacheVars, storeVars, libVars>>
             ELSE CloseFromDialog

\* gui.py:626-627  the dialog is cancelled
DialogReject ==
    /\ dialog # "none"
    /\ CloseFromDialog

ShellFrame == UNCHANGED <<window, dialog, declined, client_up, lastAuth, clientCall,
                          cacheVars, storeVars, libVars>>

\* a worker thread executes run() up to its last emission
WorkerRun ==
    /\ window \notin {"start", "closed"}
    /\ LET S == ShellState
       IN  \E w \in 1..MaxWorkers :
             /\ S.workers[w].status = "running"
             /\ \E env \in RunEnvs(S.workers[w].kind) :
                  SetShell(RunWorker(S, w, env))
    /\ ShellFrame

\* the UI thread's event loop delivers a queued emission
HandleEvent ==
    /\ EventLoop
    /\ queue # << >>
    /\ Step(Deliver(ShellState))
    /\ ShellFrame

\* gui.py:534  the Friends button
NavFriends == Interactive /\ Step(show_friends(ShellState)) /\ ShellFrame

\* gui.py:539  the Games button
NavGames == Interactive /\ Step(show_games(ShellState)) /\ ShellFrame

\* gui.py:544, 956-958  the Search button
NavSearch ==
    /\ Interactive
    /\ content_area.view # "search"
    /\ SetShell(Show(ShellState, Panel("search")))
    /\ ShellFrame

\* gui.py:552, 1152-1154  the Settings button
NavSettings ==
    /\ Interactive
    /\ content_area.view # "settings"
    /\ SetShell([Show(ShellState, Panel("settings")) EXCEPT
                     !.ui_blocking = ui_blocking \cup UiCalls(TRUE, FALSE)])
    /\ ShellFrame

SearchInputs == {<<" ">>, <<"a">>}

\* search_ui.py:115, 162-169  the search box is submitted
SearchTriggered ==
    /\ Interactive
    /\ content_area.view = "search"
    /\ \E username \in SearchInputs :
         Step(SearchUI_perform_search(ShellState, username))
    /\ ShellFrame

\* friends_ui.py:70-76  a name in a displayed friends list is clicked
ClickFriend ==
    /\ Interactive
    /\ content_area.view \in {"friends", "user_friends"}
    /\ LET names == content_area.items
       IN  \E i \in 1..Len(names) : Step(search_friend(ShellState, names[i]))
    /\ ShellFrame

\* search_ui.py:447-452  "View Friends" on a displayed profile
ViewUserFriends ==
    /\ Interactive
    /\ content_area.view \in {"search_result", "profile"}
    /\ Step(view_user_friends(ShellState, content_area.arg))
    /\ ShellFrame

\* search_ui.py:455-460  "View Games" on a displayed profile
ViewUserGames ==
    /\ Interactive
    /\ content_area.view \in {"search_result", "profile"}
    /\ Step(view_user_games(ShellState, content_area.arg))
    /\ ShellFrame

\* friends_ui.py:32-36, games_ui.py:65-69  "Back to Profile"
BackToUserProfile ==
    /\ Interactive
    /\ content_area.view \in {"user_friends", "user_games"}
    /\ Step(back_to_user_profile(ShellState, content_area.arg))
    /\ ShellFrame

\* settings_ui.py:117-127, gui.py:1156-1166  "Change Token", confirmed
ChangeToken ==
    /\ Interactive
    /\ content_area.view = "settings"
    /\ dialog' = "change"
    /\ UNCHANGED <<window, declined, workers, active_threads, active_image_loaders,
                   current_search_thread, queue, content_area, handled, applied,
                   superseded, clientVars, cacheVars, storeVars, libVars>>
    /\ lastRun' = NoRun
    /\ ui_blocking' = ui_blocking
    /\ cleanup_obs' = "none"

\* the user closes the window
WindowClose ==
    /\ Interactive
    /\ Step(Quit(ShellState))
    /\ window' = "closed"
    /\ UNCHANGED <<dialog, declined, client_up, lastAuth, clientCall, cacheVars, storeVars, libVars>>

Next ==
    \/ MainWindowInit
    \/ MainShow
    \/ DialogAccept
    \/ DialogReject
    \/ WorkerRun
    \/ HandleEvent
    \/ NavFriends
    \/ NavGames
    \/ NavSearch
    \/ NavSettings
    \/ SearchTriggered
    \/ ClickFriend
    \/ ViewUserFriends
    \/ ViewUserGames
    \/ BackToUserProfile
    \/ ChangeToken
    \/ WindowClose

(***************************************************************************)
(* The specifications.                                                     *)
(***************************************************************************)
InitCache == InitCacheVars /\ InitKeyFile /\ InitClientVars /\ InitShellVars /\ InitStoreVars /\ InitLibVars
SpecCache == InitCache /\ [][NextCache]_vars

InitClient == InitCacheVars /\ InitKeyFile /\ InitClientVars /\ InitShellVars /\ InitStoreVars /\ InitLibVars
SpecClient == InitClient /\ [][NextClient]_vars

\* the shell starts with no stored token or with one stored by an earlier run
ShellInitialSettings == {<< >>, [k \in {"npsso"} |-> encrypt_token(<<"a">>, CurrentKey)]}
Init ==
    /\ InitCacheVars
    /\ InitKeyFile
    /\ InitClientVars
    /\ settings \in ShellInitialSettings
    /\ InitShellVars
    /\ InitStoreVars /\ InitLibVars
Spec == Init /\ [][Next]_vars

\* the settings table under a moving clock
InitSettings == InitCacheVars /\ InitKeyFile /\ InitClientVars /\ InitShellVars /\ InitStoreVars /\ InitLibVars
SpecSettings == InitSettings /\ [][NextSettings]_vars

\* token storage: the key file is there, was written under another system
\* identity, or is missing
InitStore ==
    /\ InitCacheVars
    /\ key_file \in KeyMarks \cup {NoFile}
    /\ InitClientVars /\ InitShellVars /\ InitStoreVars /\ InitLibVars
SpecStore == InitStore /\ [][NextStore]_vars

\* profiles built from the account IDs PSN can report
InitProfile ==
    /\ InitCacheVars /\ InitKeyFile /\ InitClientVars /\ settings = << >>
    /\ InitShellVars /\ InitStoreVars /\ InitLibVars
SpecProfile == InitProfile /\ [][NextProfile]_vars

\* friends and games lists asked of the client on its own
InitFriends ==
    /\ InitCacheVars /\ InitKeyFile /\ InitClientVars /\ settings = << >>
    /\ InitShellVars /\ InitStoreVars /\ InitLibVars
SpecFriends == InitFriends /\ [][NextFriends]_vars

\* image loads with their temporary files
InitImage ==
    /\ InitCacheVars /\ InitKeyFile /\ InitClientVars /\ settings = << >>
    /\ InitShellVars /\ InitStoreVars /\ InitLibVars
SpecImage == InitImage /\ [][NextImage]_vars

\* the navigation pane over the profile loads of one run of the application
InitNav ==
    /\ InitCacheVars /\ InitKeyFile /\ InitClientVars /\ settings = << >>
    /\ InitShellVars /\ InitStoreVars
    /\ lastCall = NoCall /\ nav_pane = NavPaneInit
SpecNav == InitNav /\ [][NextNav]_vars

\* the tokens table written from several connections
InitTokens ==
    /\ InitCacheVars /\ InitKeyFile /\ InitClientVars /\ settings = << >>
    /\ InitShellVars /\ InitStoreVars /\ InitLibVars
SpecTokens == InitTokens /\ [][NextTokens]_vars


(***************************************************************************)
(* Claims about the shell and its workers (Spec).                          *)
(***************************************************************************)
\* C1: if search worker A is superseded by search worker B (B becomes the
\* current search before A's completion is handled), the shell does not apply
\* A's result or error to the UI when A's signal is handled afterwards,
\* whichever entry points started A and B and whether or not A's thread was
\* still running when it was cancelled.
C1_StaleSearchDiscarded == superseded \cap applied = {}

\* exactly one terminal emission, and it is the last emission of the run
OneTerminalLast(log) ==
    /\ log # << >>
    /\ IsTerminal(log[Len(log)])
    /\ \A i \in 1..(Len(log) - 1) : log[i] = "progress"

\* C2 as stated: every run of every worker ends with exactly one terminal
\* outcome (one success emission or one error emission, never both, never
\* neither), and no progress notification follows it.
C2_EveryRunOneTerminal ==
    lastRun.ended # "none" => OneTerminalLast(lastRun.log)

\* C2, amended: every run that gets to the end of run() (one that the shell
\* does not terminate while cancelling it or cleaning up) ends with exactly
\* one terminal outcome, and no progress notification follows it.
C2_ReturnedRunOneTerminal ==
    lastRun.ended = "returned" => OneTerminalLast(lastRun.log)

\* C2 witness: a profile load that found no profile has run to its end and
\* emitted its progress notification and then the error outcome.
C2_Witness ==
    /\ lastRun.ended = "returned"
    /\ lastRun.kind = "ProfileLoaderThread"
    /\ lastRun.log = <<"progress", "error">>

\* C3: when the client is authenticated and the PSN friends fetch returns a
\* list, a Friends Loader run ends with the success outcome carrying that
\* list, and the status messages of the fetch were delivered as progress
\* notifications.
C3_FriendsLoaderSucceeds ==
    (/\ lastRun.kind = "FriendsLoaderThread"
     /\ lastRun.ended = "returned"
     /\ lastRun.auth
     /\ lastRun.api.ok)
    => /\ lastRun.log # << >>
       /\ lastRun.log[Len(lastRun.log)] = "finished"
       /\ lastRun.val = Val(ResList(lastRun.api.list, 0))
       /\ \E i \in 1..Len(lastRun.log) : lastRun.log[i] = "progress"

\* C4: a User-Games Loader run for a target online ID ends with the success
\* outcome carrying a games list (the empty list when the library is
\* inaccessible), not with the error outcome.
C4_UserGamesLoaderSucceeds ==
    (lastRun.kind = "UserGamesLoaderThread" /\ lastRun.ended = "returned")
    => /\ lastRun.log # << >>
       /\ lastRun.log[Len(lastRun.log)] = "finished"
       /\ lastRun.val.kind = "list"

InActiveThreads(w) == \E i \in 1..Len(active_threads) : active_threads[i] = w

\* C5: every worker the shell started is in active_threads from the moment
\* it is started, and is no longer in it once its run has finished and its
\* outcome has been handled, however the run ended.
C5_ActiveThreadsTracksRunning ==
    \A w \in 1..MaxWorkers :
        /\ workers[w].status = "running" => InActiveThreads(w)
        /\ (/\ workers[w].status \in {"stopped", "terminated"}
            /\ \A i \in 1..Len(queue) : queue[i].w # w)
           => ~InActiveThreads(w)

\* C6: after the token dialog has been declined, or accepted with an empty
\* value, the main window is never shown while the client is
\* unauthenticated.
C6_DeclineClosesApplication ==
    declined => ~(window = "shown" /\ ~is_authenticated(Client))

\* C18: no PSN call and no database read or write is ever made on the UI
\* thread: at startup, on token entry or change and on opening the settings
\* panel the UI thread makes no blocking call.
C18_NoBlockingCallOnUiThread == ui_blocking = {}

\* the search workers whose result can still reach a handler: the handlers
\* are connected and the worker is running or has a result queued for the
\* UI thread
LiveSearchWorkers ==
    {w \in 1..MaxWorkers :
        /\ workers[w].kind = "UserSearchThread"
        /\ workers[w].connected
        /\ \/ workers[w].status = "running"
           \/ \E i \in 1..Len(queue) : queue[i].w = w}

\* C19: every search trigger (perform_search, search_friend,
\* back_to_user_profile) disconnects and stops the previous search worker
\* before it starts a new one, so that at any time at most one search
\* worker has connected result handlers.
C19_OneConnectedSearchWorker == Cardinality(LiveSearchWorkers) <= 1

\* the image loads in flight that the shell still lists: the loader is in
\* active_image_loaders, its handlers are connected, and it is running or
\* has a result queued for the UI thread
LiveImageLoaders ==
    {w \in 1..MaxWorkers :
        /\ \E i \in 1..Len(active_image_loaders) : active_image_loaders[i] = w
        /\ workers[w].connected
        /\ \/ workers[w].status = "running"
           \/ \E i \in 1..Len(queue) : queue[i].w = w}

\* C20: switching away from a view that owns image loads in flight, to the
\* friends or games view, to the settings panel or to a user's friends or
\* games view, cancels them: once the new view is up none of them is left
\* in active_image_loaders with connected handlers.
C20_ViewSwitchCancelsImageLoads ==
    content_area.view \in {"loading", "settings"} => LiveImageLoaders = {}

\* C21: when cleanup_threads returns, whatever workers were active or had
\* finished when it was called, no worker is still running (each was
\* stopped within its wait or terminated), active_threads and
\* active_image_loaders are empty and current_search_thread is None.
C21_CleanupLeavesNothing == cleanup_obs # "left"

\* C21 witness: the window was closed while a worker was running; the worker
\* was terminated and cleanup_threads left nothing behind.
C21_Witness ==
    /\ window = "closed"
    /\ cleanup_obs = "stopped"
    /\ lastRun.ended = "terminated"
    /\ \E w \in 1..MaxWorkers : workers[w].status = "terminated"

\* the oldest queued emission is the completion, with an empty list, of a
\* load of another user's friends or games
EmptyUserListCompletion ==
    /\ queue # << >>
    /\ Head(queue).sig = "finished"
    /\ workers[Head(queue).w].done_slot
          \in {"on_user_friends_loaded", "on_user_games_loaded"}
    /\ Head(queue).val.items = << >>
UserPanelOf(slot) == IF slot = "on_user_friends_loaded" THEN "user_friends"
                     ELSE "user_games"

\* C26: when the load of another user's friends (games) list completes with
\* an empty list, the step that handles the completion leaves the content
\* area showing that user's friends (games) panel, with the back navigation
\* and the empty-state explanation; nothing replaces the panel while the
\* completion is handled.
C26_EmptyListKeepsPanel ==
    [][EmptyUserListCompletion /\ HandleEvent
       => content_area' = View(UserPanelOf(workers[Head(queue).w].done_slot),
                               workers[Head(queue).w].arg, << >>)]_vars

\* w is a search worker of S and no search has been started after it (the
\* workers are numbered by age): every cancellation of the current search
\* is followed by the start of a new one, so w has been neither cancelled
\* nor superseded, and it was made the current search when it was started
LatestSearch(S, w) ==
    /\ S.workers[w].kind = "UserSearchThread"
    /\ \A v \in (w + 1)..MaxWorkers : S.workers[v].kind # "UserSearchThread"
    /\ w \notin S.superseded
\* the event loop handles the completion (result or error) of such a worker
LatestSearchCompletionHandled ==
    /\ queue # << >>
    /\ LatestSearch(ShellState, Head(ShellState.queue).w)
    /\ HandleEvent

\* C27: a search worker that is the tracked current search, and is neither
\* superseded nor cancelled before it completes, has its result or error
\* applied to the UI when its completion is handled, and
\* current_search_thread is None afterwards; the completion is never
\* dropped because the handler of an earlier search worker has cleared
\* current_search_thread in the meantime.
C27_CurrentSearchNotDropped ==
    [][LatestSearchCompletionHandled
       => /\ Head(ShellState.queue).w \in applied'
          /\ current_search_thread' = 0]_vars

LoadKinds == {"FriendsLoaderThread", "GamesLoaderThread",
              "UserFriendsLoaderThread", "UserGamesLoaderThread"}
\* the loads whose completion has not been handled yet
LoadsInFlight ==
    {w \in 1..MaxWorkers :
        /\ workers[w].kind \in LoadKinds
        /\ \/ workers[w].status = "running"
           \/ \E i \in 1..Len(queue) : queue[i].w = w}
\* the completion about to be handled is that of the last load in flight,
\* and a load triggered after it (the workers are numbered by age) has just
\* had its result put into the content area
OlderLoadCompletesLast ==
    /\ queue # << >>
    /\ LoadsInFlight = {Head(queue).w}
    /\ \E v \in (Head(queue).w + 1)..MaxWorkers :
          workers[v].kind \in LoadKinds /\ v \in applied

\* C28: when several non-search loads are in flight at once, the content
\* area shows the result of the most recently triggered one once all of
\* them have completed, whatever the order of the completions: handling the
\* completion of an older load after that of the latest one leaves the
\* latest one's result in the content area.
C28_LatestLoadShown ==
    [][OlderLoadCompletesLast /\ HandleEvent
       => content_area' = content_area]_vars

\* the last call was an authenticate(token), made directly or by set_npsso,
\* that returned False
FailedAuthenticate ==
    /\ clientCall.op \in {"authenticate", "set_npsso"}
    /\ clientCall.attempted
    /\ ~clientCall.ret

\* C29: an authenticate(token) that fails leaves the stored token as it
\* was: get_npsso_token() returns after it what it returned before it.  This
\* also holds when the client had a valid session (a token change that
\* fails); the earlier session is discarded nevertheless.
C29_FailedAuthenticateKeepsStoredToken ==
    FailedAuthenticate
    => /\ StoredToken(settings) = StoredToken(clientCall.before.settings)
       /\ psnawp = NoSession

\* C29 witness: with a valid session and a stored token, an authenticate
\* with another token failed; the stored token is still the earlier one and
\* the session is gone.
C29_Witness ==
    /\ FailedAuthenticate
    /\ clientCall.before.psnawp = <<"a">>
    /\ StoredToken(clientCall.before.settings) = <<"a">>
    /\ Strip(clientCall.arg) \notin {<< >>, <<"a">>}
    /\ StoredToken(settings) = <<"a">>
    /\ psnawp = NoSession

(***************************************************************************)
(* Claims about the database (SpecSettings, SpecTokens).                   *)
(***************************************************************************)
\* C11: writing a settings key that already has a row, with a different
\* value, leaves one row for the key, holding the new value, whose
\* created_at is still the one of the earlier write and whose updated_at is
\* the time of this write.
C11_UpsertKeepsCreatedAt ==
    (/\ storeCall.op = "set_setting"
     /\ ~storeCall.raised
     /\ storeCall.had
     /\ storeCall.before # storeCall.value)
    => /\ storeCall.key \in DOMAIN settings
       /\ settings[storeCall.key] = storeCall.value
       /\ stamps[storeCall.key].created_at = storeCall.before_row.created_at
       /\ stamps[storeCall.key].updated_at = storeCall.t

\* the rows of a token type, oldest first
RowsOf(token_type) == {i \in DOMAIN tokens : tokens[i].token_type = token_type}

\* the committed save_token calls left the table in order: the newest row of
\* each saved type is its only active row, and get_active_token returns it
LatestIsOnlyActive ==
    \A token_type \in TokenTypes :
        LET rows == RowsOf(token_type)
        IN  rows # {} =>
              LET last == CHOOSE i \in rows : \A j \in rows : j <= i
              IN  /\ \A i \in rows : tokens[i].is_active <=> i = last
                  /\ get_active_token(tokens, token_type) = {tokens[last].token_value}

\* a step removes no row and changes no row but for deactivating it
RowsKept ==
    \A i \in DOMAIN tokens :
        /\ i \in DOMAIN tokens'
        /\ tokens'[i] \in {tokens[i], [tokens[i] EXCEPT !.is_active = FALSE]}

\* C12: after any sequence of save_token calls, also from several
\* connections at once, every saved token type has exactly one active row,
\* the most recently saved, whose value get_active_token returns, and all
\* earlier rows of the type are still there, inactive.
C12_OneActiveTokenPerType == [](LatestIsOnlyActive) /\ [][RowsKept]_vars

\* C12 witness: two rows of one type were saved by different connections,
\* the older is inactive, and a third save is inside its transaction.
C12_Witness ==
    /\ Len(tokens) >= 2
    /\ tokens[1].token_type = tokens[2].token_type
    /\ tokens[1].token_value # tokens[2].token_value
    /\ ~tokens[1].is_active
    /\ tokens[2].is_active
    /\ db_writer # 0
    /\ storeCall.op = "save_token" /\ storeCall.raised

(***************************************************************************)
(* Claims about token storage (SpecStore).                                 *)
(***************************************************************************)
\* a legacy value: a non-empty plain string
Legacy(v) == v \in Strings /\ v # << >>

InAlphabetPart(str) == SelectSeq(str, LAMBDA ch : ch \notin {"!"})

CiphertextUnder(v, key) == \E token \in Strings : v = encrypt_token(token, key)

C16_UndecryptableReadsAsNone ==
    (/\ storeCall.op = "get_npsso_token"
     /\ \E k \in KeyMarks : CiphertextUnder(storeCall.before, k)
     /\ decrypt_token(storeCall.before, storeCall.key_used).raised)
    => /\ get_setting([k \in {"npsso"} |-> storeCall.before], "npsso", TRUE) = NoneStr
       /\ storeCall.ret = NoneStr
       /\ StoredRaw = storeCall.before

\* C17: after delete_token succeeded the stored npsso value is the empty
\* string and both caches are empty; get_npsso_token then returns no value
\* (has_token is false), and the client the restarted program constructs
\* is unauthenticated.
C17_DeleteTokenClears ==
    /\ (storeCall.op = "delete_token" /\ storeCall.ok)
       => /\ StoredRaw = << >>
          /\ profile_cache = << >>
          /\ region_cache = << >>
          /\ \A db_ok \in BOOLEAN : get_npsso_token(settings, db_ok).ret = NoneStr
          /\ ~has_token(settings)
    /\ storeCall.op = "restart"
       => /\ ~is_authenticated(Client)
          /\ StoredRaw = << >>

\* C17 witness: delete_token succeeded with a decryptable token stored and
\* a region name cached.
C17_Witness ==
    /\ storeCall.op = "delete_token"
    /\ storeCall.ok
    /\ storeCall.had
    /\ storeCall.before = encrypt_token(<<"a">>, CurrentKey)

(***************************************************************************)
(* Claims about the library functions called on their own.                 *)
(***************************************************************************)
LowerHexChars == {DigitChars[d] : d \in 1..16}
PlainDecimal(s) == s # << >> /\ \A i \in 1..Len(s) : IsDecimalDigit(s[i])
\* s is written in lowercase hexadecimal digits, without prefix or padding
LowerHex(s) ==
    /\ s # << >>
    /\ \A i \in 1..Len(s) : s[i] \in LowerHexChars
    /\ Len(s) > 1 => s[1] # "0"

\* C22: for every profile built by get_my_profile or search_user, when the
\* account ID parses as an integer the resign ID is that integer in
\* lowercase hexadecimal without a 0x prefix (a minus sign first when it is
\* negative); when it does not parse the resign ID is exactly "N/A"; and the
\* profile is built either way.
C22_ResignId ==
    lastCall.op \in {"get_my_profile", "search_user"} /\ lastCall.api_ok
    => /\ lastCall.ret.kind = "profile"
       /\ PlainDecimal(lastCall.account_id)
          => /\ LowerHex(lastCall.ret.resign_id)
             /\ DigitsValue(lastCall.ret.resign_id, 16)
                    = DigitsValue(lastCall.account_id, 10)
       /\ ~int(lastCall.account_id).raised
          => \E mag \in {lastCall.ret.resign_id, Tail(lastCall.ret.resign_id)} :
                /\ LowerHex(mag)
                /\ (mag # lastCall.ret.resign_id) => lastCall.ret.resign_id[1] = "-"
                /\ DigitsValue(mag, 16) * (IF mag = lastCall.ret.resign_id THEN 1 ELSE -1)
                       = int(lastCall.account_id).value
       /\ int(lastCall.account_id).raised
          => lastCall.ret.resign_id = <<"N", "/", "A">>
       /\ (\A i \in 1..Len(lastCall.account_id) :
               ~IsDecimalDigit(lastCall.account_id[i]))
          => lastCall.ret.resign_id = <<"N", "/", "A">>

\* C22 witness: search_user built the profile of the account ID "255", whose
\* resign ID has two letter digits.
C22_Witness ==
    /\ lastCall.op = "search_user"
    /\ lastCall.account_id = <<"2", "5", "5">>
    /\ lastCall.ret.kind = "profile"
    /\ lastCall.ret.resign_id = <<"f", "f">>

\* the friends whose extraction works, in the order PSN yields them
GoodFriends(n, bad) ==
    LET Good(i) == i \notin bad
    IN  SelectSeq([i \in 1..n |-> i], Good)
\* connecting, a "loaded" message for every multiple of 10 up to count, and
\* the completion message with count
ExpectedMessages(count) ==
    <<Message("connecting", 0)>>
    \o [j \in 1..(count \div 10) |-> Message("loaded", 10 * j)]
    \o <<Message("completed", count)>>

\* C23 as stated: every authenticated get_friends_list call with a
\* progress_callback calls it first with the connecting message, then with
\* a "Loaded N" message each time the count of processed friends reaches a
\* multiple of 10, and last with the completion message carrying the final
\* count; a friend whose extraction fails is skipped without advancing the
\* count; the friends returned are the remaining ones in PSN's order.
C23_ProgressMessages ==
    lastCall.op = "get_friends_list" /\ lastCall.auth
    => /\ lastCall.ret = GoodFriends(lastCall.n, lastCall.bad)
       /\ lastCall.msgs = ExpectedMessages(Len(lastCall.ret))

\* C23, amended: the same, for the calls in which the friends request does
\* not raise; when it raises, the messages end with the error message and
\* the empty list is returned.
C23_ProgressMessagesUnlessRequestRaises ==
    lastCall.op = "get_friends_list" /\ lastCall.auth
    => IF lastCall.raised
       THEN /\ lastCall.ret = << >>
            /\ lastCall.msgs[1] = Message("connecting", 0)
            /\ lastCall.msgs[Len(lastCall.msgs)] = Message("error", 0)
       ELSE /\ lastCall.ret = GoodFriends(lastCall.n, lastCall.bad)
            /\ lastCall.msgs = ExpectedMessages(Len(lastCall.ret))

\* C23 witness: of 21 friends the 10th and 11th failed to extract; 19 were
\* returned and one "Loaded 10" message was sent, after the 12th friend.
C23_Witness ==
    /\ lastCall.op = "get_friends_list"
    /\ lastCall.auth /\ ~lastCall.raised
    /\ lastCall.n = 21 /\ lastCall.bad = {10, 11}
    /\ Len(lastCall.ret) = 19
    /\ lastCall.ret[10] = 12
    /\ Len(lastCall.msgs) = 3

UserListOps == {"get_user_friends_list", "get_user_games_list"}
\* the call asked for the list of a user other than the authenticated one
AnotherUser(call) ==
    /\ call.session # NoSession
    /\ Strip(call.online_id) # << >>
    /\ Lower(Strip(call.online_id)) # Lower(OwnOnlineId(call.session))
\* the call returned a list of the authenticated user
ReturnedOwnList(call) == call.ret \in {OwnFriends, OwnGames}

\* C24: get_user_friends_list and get_user_games_list never raise; asked for
\* another user whose list is private (the request raises, or the user
\* object lacks the method) they return the empty list; and they return the
\* authenticated user's own list only when the online ID given matches the
\* own one ignoring case and surrounding whitespace.
C24_PrivateListIsEmpty ==
    lastCall.op \in UserListOps
    => /\ ~lastCall.raised
       /\ AnotherUser(lastCall) /\ (~lastCall.psn.capable \/ ~lastCall.psn.visible)
          => lastCall.ret = << >>
       /\ ReturnedOwnList(lastCall) => ~AnotherUser(lastCall)

\* C24 witness: the games list of another user was asked for, the user
\* object has no title_stats while the own list is available; the call
\* returned the empty list.
C24_Witness ==
    /\ lastCall.op = "get_user_games_list"
    /\ AnotherUser(lastCall)
    /\ lastCall.psn.me_ok /\ lastCall.psn.own_ok /\ lastCall.psn.user_ok
    /\ ~lastCall.psn.capable
    /\ lastCall.ret = << >>

\* C25: an ImageLoader run with an empty URL emits an error without making
\* a network request; a run with a non-empty URL leaves no temporary file
\* it created behind when it ends, whether decoding succeeded, decoding
\* failed, or writing the body failed.
C25_NoTempFileLeft ==
    lastCall.op = "ImageLoader_run"
    => /\ lastCall.url = << >>
          => lastCall.requests = 0 /\ lastCall.emitted = <<"error: No URL provided">>
       /\ lastCall.url # << >>
          => lastCall.created \cap lastCall.existing = {}

\* C30: after every successful profile load, also one that follows a token
\* change to another account, the summary of the navigation pane shows the
\* new profile's online ID and region, its resign ID and its trophy
\* breakdown, so that no field of the previous profile remains, and there
\* is at most one copy-base64 button.
C30_NavPaneShowsLoadedProfile ==
    lastCall.op = "on_profile_loaded"
    => /\ nav_pane.info = ProfileText(lastCall.profile)
       /\ nav_pane.resign = <<lastCall.profile.resign_id>>
       /\ nav_pane.trophies = TrophyText(lastCall.profile)
       /\ Len(nav_pane.buttons) <= 1

(***************************************************************************)
(* Claims about the client (SpecClient).                                   *)
(***************************************************************************)
\* C7: after any sequence of authenticate / set_npsso calls the client is
\* authenticated exactly when its most recent authenticate attempt succeeded
\* (never, if there was none); a successful authenticate(token) has stored
\* token so that get_npsso_token() returns it; a failed one has discarded the
\* session handle.
C7_AuthState ==
    /\ is_authenticated(Client) <=> lastAuth = "ok"
    /\ (clientCall.op = "authenticate" /\ clientCall.ret) =>
           StoredToken(settings) = clientCall.arg
    /\ (clientCall.op = "authenticate" /\ ~clientCall.ret) =>
           psnawp = NoSession

\* C7 witness: a failed authenticate has followed a successful one, so the
\* session of the earlier token is gone while that token is still stored.
C7_Witness ==
    /\ clientCall.op = "authenticate"
    /\ ~clientCall.ret
    /\ clientCall.before.psnawp # NoSession
    /\ psnawp = NoSession
    /\ StoredToken(settings) = clientCall.before.psnawp

\* C8: set_npsso with an empty or whitespace-only token returns failure,
\* attempts no authentication and leaves the session handle and the stored
\* token as they were; with any other input its result and effects are those
\* of authenticate applied to the trimmed token (on success the session and
\* the stored token are the trimmed token).
C8_SetNpsso ==
    clientCall.op = "set_npsso" =>
        LET c == clientCall
            t == Strip(c.arg)
            a == authenticate(c.before, t, c.net_ok, c.db_ok)
        IN  IF c.arg = << >> \/ t = << >>
            THEN /\ ~c.ret
                 /\ ~c.attempted
                 /\ psnawp = c.before.psnawp
                 /\ settings = c.before.settings
            ELSE /\ c.attempted
                 /\ c.ret = a.ret
                 /\ psnawp = a.psnawp
                 /\ settings = a.settings
                 /\ c.ret => (psnawp = t /\ StoredToken(settings) = t)

\* C8 witness: a whitespace-only token was rejected while a session existed.
C8_Witness ==
    /\ clientCall.op = "set_npsso"
    /\ clientCall.arg # << >>
    /\ Strip(clientCall.arg) = << >>
    /\ ~clientCall.ret
    /\ psnawp # NoSession
    /\ Truthy(StoredToken(settings))

\* C9: called while the client is unauthenticated, every data operation
\* returns an empty list or None and makes no request to the PSN API.
C9_UnauthenticatedEmpty ==
    (clientCall.op \in DataOps /\ ~is_authenticated(clientCall.before)) =>
        /\ clientCall.result.kind \in {"none", "list"}
        /\ clientCall.result.items = << >>
        /\ clientCall.result.api_calls = 0

\* C9 witness: search_user was called for a proper online ID while the
\* client was unauthenticated.
C9_Witness ==
    /\ clientCall.op = "search_user"
    /\ ~is_authenticated(clientCall.before)
    /\ ~BlankInput(clientCall.arg)
    /\ clientCall.result = ResNone(0)

(***************************************************************************)
(* Claims about the profile cache (SpecCache).                             *)
(***************************************************************************)
\* C10: a get_cached_profile call whose key has an entry stored less than
\* CACHE_TTL seconds ago returns the stored value, does not invoke fetch_func
\* and leaves the entry (value and timestamp) as it was; a call whose key has
\* no entry, or an entry stored CACHE_TTL or more seconds ago, invokes
\* fetch_func exactly once and, fetch_func having returned, stores the fetched
\* value with the time of the store.
C10_CacheTTL ==
    cacheCall.called =>
        LET c == cacheCall
            young == c.had /\ c.t1 - c.before.cached_time < CACHE_TTL
        IN  IF young
            THEN /\ c.ret = c.before.cached_data
                 /\ c.fetches = 0
                 /\ profile_cache[c.key] = c.before
            ELSE /\ c.fetches = 1
                 /\ c.fetched # Raise =>
                       /\ c.ret = c.fetched
                       /\ profile_cache[c.key] =
                              [cached_time |-> c.t2, cached_data |-> c.fetched]

\* C10 witness: an entry exactly CACHE_TTL seconds old was refetched and
\* overwritten with a different value.
C10_Witness ==
    /\ cacheCall.called
    /\ cacheCall.had
    /\ cacheCall.t1 - cacheCall.before.cached_time = CACHE_TTL
    /\ cacheCall.fetches = 1
    /\ cacheCall.fetched # Raise
    /\ cacheCall.before.cached_data # cacheCall.fetched
    /\ profile_cache[cacheCall.key].cached_data = cacheCall.fetched

====
